---- MODULE Spec2Model ----
(***************************************************************************)
(* State-machine model of the laude-agent repository.                      *)
(*                                                                         *)
(*   EnterpriseAuth (auth_system.py): the SQLite tables users, otp_codes,  *)
(*   user_sessions and audit_log, and the operations register_user,        *)
(*   generate_otp, verify_otp, validate_session and logout_user.           *)
(*                                                                         *)
(*   The FastAPI backend (backend/server.py): registration, OTP issuance   *)
(*   and OTP verification, and the endpoints protected by                  *)
(*   validate_session, one request at a time; and OTP verification served  *)
(*   concurrently, one database call at a time.                            *)
(*                                                                         *)
(*   The admin panel (admin/admin_panel.py): its login screen and          *)
(*   dashboard.                                                            *)
(*                                                                         *)
(*   record_multiple_clips (utils/record_voice.py): the recording loop.    *)
(*                                                                         *)
(*   EnterpriseAuth and the backend side by side, given the same trace of  *)
(*   operations.                                                           *)
(*                                                                         *)
(*   The command-line pipeline (main.py, run_full_system.py) with its      *)
(*   stages record, merge, transcribe, summarize and e-mail, and           *)
(*   merge_audio_clips (utils/merge_audio.py).                             *)
(*                                                                         *)
(* Each run executes one of these programs; the variable program says      *)
(* which.  Time is counted in minutes.  An e-mail address is the sequence  *)
(* of the pieces that str.split('@') yields: <<"ann", "hhamedicine.com">>  *)
(* is "ann@hhamedicine.com", <<"nodomain">> is a string without '@'.       *)
(* Every EnterpriseAuth operation is one action: each of them opens its    *)
(* own connection and commits (or loses) its changes before it returns.    *)
(***************************************************************************)
EXTENDS Integers, Sequences, FiniteSets, TLC

VARIABLES
    program,        \* which program of the repository this run executes
    inject,         \* TRUE when database and mail steps may fail in this run
    now,            \* the wall clock, in minutes
    ticks,          \* number of clock advances so far
    users,          \* EnterpriseAuth table users, in id order
    otp_codes,      \* EnterpriseAuth table otp_codes, in id order
    user_sessions,  \* EnterpriseAuth table user_sessions, in id order
    audit_log,      \* EnterpriseAuth table audit_log, in id order
    logins,         \* history: logins[k] is the otp id that created session k
    result,         \* the value returned by the last operation
    pc,             \* position of the command-line pipeline
    audio_files,    \* the clips handed to merge_audio_clips
    output_file,    \* final_audio.wav: whether it was created, and its frames
    final_audio_path, \* the value merge_audio_clips returned
    transcript,     \* the value transcribe_audio returned
    summary,        \* the e-mail text or report the summarize stage returned
    calls,          \* history: the stages invoked so far, with their argument
    reports,        \* backend collection db.reports
    automation_requests, \* backend collection db.automation_requests
    chat_messages,  \* backend collection db.chat_messages
    in_flight,      \* the verify-otp requests being served, with their locals
    admin_authenticated, \* AdminPanel.admin_authenticated
    current_admin_user,  \* AdminPanel.current_admin_user
    admin_status_label,  \* text of AdminPanel.admin_status_label
    screen,         \* what the AdminPanel window shows
    clip_number,    \* record_multiple_clips: the number of the next clip
    clip_files,     \* the files written to audio_clips/, in the order written
    response,       \* record_multiple_clips: the last answer, stripped and lowered
    peer,           \* side by side: tables and last result of the other implementation
    pending         \* side by side: the operation both implementations are given

authVars == <<users, otp_codes, user_sessions, audit_log, logins>>
recVars == <<clip_number, clip_files, response>>
sideVars == <<peer, pending>>
pipeVars == <<pc, audio_files, output_file, final_audio_path, transcript,
              summary, calls, recVars, sideVars>>
apiVars == <<reports, automation_requests, chat_messages, in_flight>>
panelVars == <<admin_authenticated, current_admin_user, admin_status_label,
               screen>>
vars == <<program, inject, now, ticks, users, otp_codes, user_sessions,
          audit_log, logins, result, pc, audio_files, output_file,
          final_audio_path, transcript, summary, calls, reports,
          automation_requests, chat_messages, in_flight, admin_authenticated,
          current_admin_user, admin_status_label, screen, clip_number,
          clip_files, response, peer, pending>>

----------------------------------------------------------------------------
(* Bounds of the model *)
MaxTicks == 1
MaxOtps == 2
MaxSessions == 2
MaxAttempts == 3
MaxClips == 3
MaxDocs == 1
MaxRequests == 2

(* Program constants *)
OTP_EXPIRY_MINUTES == 10
SESSION_EXPIRY_HOURS == 8
ATTEMPT_LIMIT == 3
ALLOWED_DOMAINS == {"hhamedicine.com", "hssmedicine.com"}
COMPANY_DOMAIN == "hssmedicine.com"

None == "None"
(* secrets.token_urlsafe(32): the k-th call returns TOKENS[k], a value not  *)
(* returned before; FORGED is a string that no call returns.                *)
TOKENS == <<"tok1", "tok2", "tok3">>
FORGED == "forged"

(* The user_data of a result that carries none *)
NoUserData == [user_id |-> 0, email |-> <<>>, company_domain |-> None,
               session_expires |-> 0]

(* Clock advances offered to the model: exactly one OTP lifetime, and one  *)
(* minute more than a session lifetime.                                     *)
Jumps == {OTP_EXPIRY_MINUTES, 60 * SESSION_EXPIRY_HOURS + 1}

(* The e-mail strings handed to the operations: one employee's address in  *)
(* two spellings, and an outsider's                                         *)
Emails == { <<"ann", "hhamedicine.com">>,
            <<"Ann", "HHAMedicine.com">>,
            <<"eve", "evil.com">> }

(* The addresses used where both implementations are driven *)
OtpEmails == { <<"bob", "hssmedicine.com">>,
               <<"Bob", "hssmedicine.com">>,
               <<"eve", "evil.com">> }

(* Two employees, one of each company *)
UserEmails == { <<"ann", "hhamedicine.com">>, <<"bob", "hssmedicine.com">> }

(* Strings as a login form can deliver them: no check of the address       *)
(* format is made before EnterpriseAuth is called.                          *)
RawEmails == { <<"ann", "hhamedicine.com">>,
               <<"Ann", "HHAMedicine.com">>,
               <<"eve", "evil.com">>,
               <<"eve", "hhamedicine.com", "evil.com">>,
               <<"nodomain">>,
               <<"">> }

FaultEmails == { <<"ann", "hhamedicine.com">>, <<"eve", "evil.com">> }

Codes == {"111111", "222222"}

(* The one code used where two employees are driven *)
UserCodes == {"111111"}

----------------------------------------------------------------------------
(* str.lower() on the pieces used by the model *)
Lower(s) ==
    CASE s = "Ann" -> "ann"
      [] s = "HHAMedicine.com" -> "hhamedicine.com"
      [] s = "Bob" -> "bob"
      [] OTHER -> s

LowerEmail(email) == [i \in 1..Len(email) |-> Lower(email[i])]

(* company_settings holds one active row per default company *)
company_settings == {"hhamedicine.com", "hssmedicine.com"}

get_company_info(domain, dbFails) ==
    IF dbFails THEN None
    ELSE IF domain \in company_settings THEN domain ELSE None

validate_email_domain(email) ==
    IF email = <<"">> \/ Len(email) < 2
    THEN [ok |-> FALSE, domain |-> None, msg |-> "Invalid email format"]
    ELSE LET domain == Lower(email[2]) IN
         IF domain \notin ALLOWED_DOMAINS
         THEN [ok |-> FALSE, domain |-> None,
               msg |-> "Access restricted to hhamedicine.com and hssmedicine.com employees only"]
         ELSE [ok |-> TRUE, domain |-> domain, msg |-> ""]

(* send_otp_email: TRUE when the mail counts as sent.  The company lookup  *)
(* uses the domain as typed.  An error while the mail is written           *)
(* (_save_email_to_file) is logged and swallowed there, so it does not     *)
(* change the value returned.                                               *)
send_otp_email(email, fault) ==
    LET domain == email[2]
        company_info == get_company_info(domain, fault = "mail_lookup")
    IN  company_info # None

----------------------------------------------------------------------------
Faults(points) == IF inject THEN points \cup {"none"} ELSE {"none"}

(* The value an operation returns.  status and data are used by the        *)
(* backend only: the HTTP status of the response and what its body carries *)
Res(op, token, success, message, fault, user_data) ==
    [op |-> op, token |-> token, success |-> success, message |-> message,
     fault |-> fault, user_data |-> user_data, status |-> 0, data |-> None]

(* Variant: a lookup that finds no user *)
UserIdOf_none(email) == 0

UserIdOf(email) ==
    IF \E i \in 1..Len(users) : users[i].email = email
    THEN CHOOSE i \in 1..Len(users) : users[i].email = email
    ELSE 0

InitAuthTables ==
    /\ users = <<>>
    /\ otp_codes = <<>>
    /\ user_sessions = <<>>
    /\ audit_log = <<>>
    /\ logins = <<>>

(* No pipeline is running *)
NoOutput == [created |-> FALSE, frames |-> <<>>]

(* No backend documents, no request being served *)
InitApi ==
    /\ reports = <<>>
    /\ automation_requests = <<>>
    /\ chat_messages = <<>>
    /\ in_flight = <<>>

(* current_admin_user = None *)
NoAdmin == [id |-> 0, email |-> <<>>]

(* AdminPanel.__init__, up to the login screen *)
InitPanel ==
    /\ admin_authenticated = FALSE
    /\ current_admin_user = NoAdmin
    /\ admin_status_label = ""
    /\ screen = "login"

(* No operation is being given to two implementations *)
NoPending == [op |-> None, email |-> <<>>, otp_code |-> None, session_token |-> None]

InitSide ==
    /\ peer = None
    /\ pending = NoPending

(* record_multiple_clips has not been called *)
InitRec ==
    /\ clip_number = 1
    /\ clip_files = <<>>
    /\ response = None

InitPipe ==
    /\ InitRec
    /\ InitSide
    /\ pc = "idle"
    /\ audio_files = <<>>
    /\ output_file = NoOutput
    /\ final_audio_path = None
    /\ transcript = None
    /\ summary = None
    /\ calls = <<>>

Init ==
    /\ program = "auth_system"
    /\ inject = FALSE
    /\ now = 0
    /\ ticks = 0
    /\ InitAuthTables
    /\ InitApi
    /\ InitPanel
    /\ InitPipe
    /\ result = Res("init", None, FALSE, "", "none", NoUserData)

Tick(d) ==
    /\ ticks < MaxTicks
    /\ now' = now + d
    /\ ticks' = ticks + 1
    /\ UNCHANGED <<program, inject, authVars, result, pipeVars, apiVars, panelVars>>

----------------------------------------------------------------------------
(* EnterpriseAuth.register_user *)
register_user(email, fault) ==
    /\ program = "auth_system"
    /\ LET v == validate_email_domain(email)
           company_info == get_company_info(v.domain, fault = "company")
           lower == LowerEmail(email)
       IN
       IF ~v.ok THEN
            /\ result' = Res("register_user", None, FALSE, v.msg, "none", NoUserData)
            /\ UNCHANGED authVars
       ELSE IF company_info = None THEN
            /\ result' = Res("register_user", None, FALSE,
                             "Company configuration not found for domain", fault, NoUserData)
            /\ UNCHANGED authVars
       ELSE IF fault = "db" THEN
            /\ result' = Res("register_user", None, FALSE,
                             "Registration failed. Please try again.", fault, NoUserData)
            /\ UNCHANGED authVars
       ELSE IF UserIdOf(lower) # 0 THEN
            /\ result' = Res("register_user", None, FALSE,
                             "User already registered. Please use login instead.", "none", NoUserData)
            /\ UNCHANGED authVars
       ELSE
            /\ users' = Append(users, [email |-> lower, company_domain |-> v.domain,
                                       login_count |-> 0, last_login |-> <<>>,
                                       is_active |-> TRUE, is_admin |-> FALSE])
            /\ audit_log' = Append(audit_log, [user_id |-> Len(users) + 1,
                                               action |-> "USER_REGISTERED"])
            /\ result' = Res("register_user", None, TRUE,
                             "Registration successful!", "none", NoUserData)
            /\ UNCHANGED <<otp_codes, user_sessions, logins>>
    /\ UNCHANGED <<program, inject, now, ticks, pipeVars, apiVars, panelVars>>

(* Variant: the UPDATE of generate_otp left out *)
DeactivateOtps_skipped(lower) == otp_codes

(* The UPDATE of generate_otp: every unused OTP of the address is used up *)
DeactivateOtps(lower) ==
    [i \in 1..Len(otp_codes) |->
        IF otp_codes[i].email = lower /\ ~otp_codes[i].is_used
        THEN [otp_codes[i] EXCEPT !.is_used = TRUE]
        ELSE otp_codes[i]]

(* EnterpriseAuth.generate_otp *)
generate_otp(email, otp_code, fault) ==
    /\ program = "auth_system"
    /\ LET v == validate_email_domain(email)
           lower == LowerEmail(email)
           expires_at == now + OTP_EXPIRY_MINUTES
           email_sent == send_otp_email(email, fault)
       IN
       IF ~v.ok THEN
            /\ result' = Res("generate_otp", None, FALSE, v.msg, "none", NoUserData)
            /\ UNCHANGED authVars
       ELSE IF fault = "db" THEN
            /\ result' = Res("generate_otp", None, FALSE,
                             "Failed to generate OTP. Please try again.", fault, NoUserData)
            /\ UNCHANGED authVars
       ELSE
            /\ Len(otp_codes) < MaxOtps
            /\ otp_codes' = Append(DeactivateOtps(lower),
                  [email |-> lower, otp_code |-> otp_code, created_at |-> now,
                   expires_at |-> expires_at, is_used |-> FALSE, attempts |-> 0])
            /\ result' = Res("generate_otp", None, email_sent,
                             IF email_sent THEN "OTP sent. Valid for 10 minutes."
                             ELSE "Failed to send OTP email. Please try again.",
                             fault, NoUserData)
            /\ UNCHANGED <<users, user_sessions, audit_log, logins>>
    /\ UNCHANGED <<program, inject, now, ticks, pipeVars, apiVars, panelVars>>

(* The unused otp_codes rows of an address that carry the given code; the  *)
(* query keeps the most recently created one (ORDER BY created_at DESC      *)
(* LIMIT 1), any of them when several were created at the same instant.     *)
MatchingOtps(lower, otp_code) ==
    {i \in 1..Len(otp_codes) :
        /\ otp_codes[i].email = lower
        /\ otp_codes[i].otp_code = otp_code
        /\ ~otp_codes[i].is_used}

LatestOtps(lower, otp_code) ==
    {i \in MatchingOtps(lower, otp_code) :
        \A j \in MatchingOtps(lower, otp_code) :
            otp_codes[j].created_at <= otp_codes[i].created_at}

(* Variant: the UPDATE that marks the OTP used left out *)
MarkUsed_skipped(otp_id) == otp_codes

MarkUsed(otp_id) == [otp_codes EXCEPT ![otp_id].is_used = TRUE]

(* Variant: the UPDATE of a failed lookup left out *)
CountAttempt_skipped(lower) == otp_codes

(* The UPDATE of a failed lookup: one more attempt on every unused OTP of  *)
(* the address                                                              *)
CountAttempt(lower) ==
    [i \in 1..Len(otp_codes) |->
        IF otp_codes[i].email = lower /\ ~otp_codes[i].is_used
        THEN [otp_codes[i] EXCEPT !.attempts = @ + 1]
        ELSE otp_codes[i]]

(* Variant: the comparison of the expiry test turned around *)
otp_expired_flipped(otp_id) == now < otp_codes[otp_id].expires_at

otp_expired(otp_id) == now > otp_codes[otp_id].expires_at

(* Variant: no attempt limit *)
too_many_attempts_never(otp_id) == FALSE

(* Variant: the attempt limit reached one attempt early *)
too_many_attempts_early(otp_id) == otp_codes[otp_id].attempts >= ATTEMPT_LIMIT - 1

too_many_attempts(otp_id) == otp_codes[otp_id].attempts >= ATTEMPT_LIMIT

NewSession(user_id, session_token) ==
    [user_id |-> user_id, session_token |-> session_token, created_at |-> now,
     expires_at |-> now + 60 * SESSION_EXPIRY_HOURS, is_active |-> TRUE,
     last_activity |-> now]

(* EnterpriseAuth.verify_otp *)
verify_otp(email, otp_code, fault) ==
    /\ program = "auth_system"
    /\ LET lower == LowerEmail(email)
           found == LatestOtps(lower, otp_code)
       IN
       IF fault = "db" THEN
            /\ result' = Res("verify_otp", None, FALSE,
                             "Login failed. Please try again.", fault, NoUserData)
            /\ UNCHANGED authVars
       ELSE IF found = {} THEN
            /\ \A i \in 1..Len(otp_codes) :
                  otp_codes[i].email = lower /\ ~otp_codes[i].is_used
                      => otp_codes[i].attempts < MaxAttempts
            /\ otp_codes' = CountAttempt(lower)
            /\ result' = Res("verify_otp", None, FALSE,
                             "Invalid OTP code. Please check and try again.", "none", NoUserData)
            /\ UNCHANGED <<users, user_sessions, audit_log, logins>>
       ELSE \E otp_id \in found :
            IF otp_expired(otp_id) THEN
                /\ otp_codes' = MarkUsed(otp_id)
                /\ result' = Res("verify_otp", None, FALSE,
                                 "OTP has expired. Please request a new one.", "none", NoUserData)
                /\ UNCHANGED <<users, user_sessions, audit_log, logins>>
            ELSE IF too_many_attempts(otp_id) THEN
                /\ otp_codes' = MarkUsed(otp_id)
                /\ result' = Res("verify_otp", None, FALSE,
                                 "Too many failed attempts. Please request a new OTP.", "none", NoUserData)
                /\ UNCHANGED <<users, user_sessions, audit_log, logins>>
            ELSE IF UserIdOf(lower) = 0 THEN
                \* the connection is closed without a commit: the UPDATE
                \* that marked the OTP used is lost
                /\ result' = Res("verify_otp", None, FALSE,
                                 "User not found. Please register first.", "none", NoUserData)
                /\ UNCHANGED authVars
            ELSE
                LET user_id == UserIdOf(lower)
                    session_token == TOKENS[Len(user_sessions) + 1]
                    session == NewSession(user_id, session_token)
                IN
                /\ Len(user_sessions) < MaxSessions
                /\ Len(user_sessions) < Len(TOKENS)
                /\ otp_codes' = MarkUsed(otp_id)
                /\ user_sessions' = Append(user_sessions, session)
                /\ users' = [users EXCEPT ![user_id].login_count = @ + 1,
                                          ![user_id].last_login = <<now>>]
                /\ audit_log' = Append(audit_log, [user_id |-> user_id,
                                                   action |-> "LOGIN_SUCCESS"])
                /\ logins' = Append(logins, otp_id)
                /\ result' = Res("verify_otp", session_token, TRUE,
                                 "Login successful!", "none",
                                 [user_id |-> user_id, email |-> email,
                                  company_domain |-> users[user_id].company_domain,
                                  session_expires |-> session.expires_at])
    /\ UNCHANGED <<program, inject, now, ticks, pipeVars, apiVars, panelVars>>

(* Variant: the lookup without its  is_active = 1  condition *)
ActiveSessions_any(session_token) ==
    {k \in 1..Len(user_sessions) :
        /\ user_sessions[k].session_token = session_token
        /\ user_sessions[k].user_id \in 1..Len(users)}

(* The rows of  user_sessions JOIN users  with the given token and         *)
(* is_active = 1                                                            *)
ActiveSessions(session_token) ==
    {k \in 1..Len(user_sessions) :
        /\ user_sessions[k].session_token = session_token
        /\ user_sessions[k].is_active
        /\ user_sessions[k].user_id \in 1..Len(users)}

session_expired(k) == now > user_sessions[k].expires_at

(* Variant: an UPDATE that matches no row *)
Deactivate_none(session_token) == user_sessions

Deactivate(session_token) ==
    [k \in 1..Len(user_sessions) |->
        IF user_sessions[k].session_token = session_token
        THEN [user_sessions[k] EXCEPT !.is_active = FALSE]
        ELSE user_sessions[k]]

(* Variant: a sliding expiry, pushed forward on every validation *)
Touch_sliding(session_token) ==
    [k \in 1..Len(user_sessions) |->
        IF user_sessions[k].session_token = session_token
        THEN [user_sessions[k] EXCEPT !.last_activity = now,
                                      !.expires_at = now + 60 * SESSION_EXPIRY_HOURS]
        ELSE user_sessions[k]]

Touch(session_token) ==
    [k \in 1..Len(user_sessions) |->
        IF user_sessions[k].session_token = session_token
        THEN [user_sessions[k] EXCEPT !.last_activity = now]
        ELSE user_sessions[k]]

SessionUserData(k) ==
    [user_id |-> user_sessions[k].user_id,
     email |-> users[user_sessions[k].user_id].email,
     company_domain |-> users[user_sessions[k].user_id].company_domain,
     session_expires |-> user_sessions[k].expires_at]

(* EnterpriseAuth.validate_session *)
validate_session(session_token, fault) ==
    /\ program = "auth_system"
    /\ IF fault = "db" THEN
            /\ result' = Res("validate_session", session_token, FALSE,
                             "Session validation failed. Please login again.", fault, NoUserData)
            /\ UNCHANGED authVars
       ELSE IF ActiveSessions(session_token) = {} THEN
            /\ result' = Res("validate_session", session_token, FALSE,
                             "Invalid session. Please login again.", "none", NoUserData)
            /\ UNCHANGED authVars
       ELSE \E k \in ActiveSessions(session_token) :
            IF session_expired(k) THEN
                /\ user_sessions' = Deactivate(session_token)
                /\ result' = Res("validate_session", session_token, FALSE,
                                 "Session expired. Please login again.", "none", NoUserData)
                /\ UNCHANGED <<users, otp_codes, audit_log, logins>>
            ELSE
                /\ user_sessions' = Touch(session_token)
                /\ result' = Res("validate_session", session_token, TRUE, "", "none",
                                 SessionUserData(k))
                /\ UNCHANGED <<users, otp_codes, audit_log, logins>>
    /\ UNCHANGED <<program, inject, now, ticks, pipeVars, apiVars, panelVars>>

(* EnterpriseAuth.logout_user *)
logout_user(session_token, fault) ==
    /\ program = "auth_system"
    /\ IF fault = "db" THEN
            /\ result' = Res("logout_user", session_token, FALSE,
                             "Logout failed", fault, NoUserData)
            /\ UNCHANGED authVars
       ELSE
            /\ user_sessions' = Deactivate(session_token)
            /\ audit_log' =
                  IF ActiveSessions(session_token) # {}
                  THEN LET k == CHOOSE k \in ActiveSessions(session_token) : TRUE
                       IN Append(audit_log, [user_id |-> user_sessions[k].user_id,
                                             action |-> "LOGOUT"])
                  ELSE audit_log
            /\ result' = Res("logout_user", session_token, TRUE,
                             "Logged out successfully", "none", NoUserData)
            /\ UNCHANGED <<users, otp_codes, logins>>
    /\ UNCHANGED <<program, inject, now, ticks, pipeVars, apiVars, panelVars>>

----------------------------------------------------------------------------
(* The FastAPI backend (backend/server.py), one request at a time.  Under  *)
(* program = "server" the variables users, otp_codes and user_sessions     *)
(* hold the Mongo collections db.users, db.otp_codes and db.sessions, and  *)
(* result holds the response: success FALSE and the detail of the          *)
(* HTTPException when one is raised.                                        *)

(* A response of the backend: the status, and for an HTTPException its    *)
(* detail as message                                                        *)
Response(op, status, token, message, user_data, data) ==
    [Res(op, token, status = 200, message, "none", user_data)
        EXCEPT !.status = status, !.data = data]

(* Variant: the domain test left out *)
in_company_domain_open(email) == TRUE

(* email.endswith("@" + COMPANY_DOMAIN) on an address with one '@' *)
in_company_domain(email) == Len(email) = 2 /\ email[2] = COMPANY_DOMAIN

(* POST /api/auth/register *)
server_register_user(email) ==
    /\ program = "server"
    /\ LET lower == LowerEmail(email) IN
       IF ~in_company_domain(email) THEN
            /\ result' = Response("server_register_user", 400, None,
                             "Access restricted to hssmedicine.com employees only",
                             NoUserData, None)
            /\ UNCHANGED authVars
       ELSE IF UserIdOf(lower) # 0 THEN
            /\ result' = Response("server_register_user", 400, None,
                             "User already registered", NoUserData, None)
            /\ UNCHANGED authVars
       ELSE
            /\ users' = Append(users, [email |-> lower, company_domain |-> COMPANY_DOMAIN,
                                       login_count |-> 0, last_login |-> <<>>,
                                       is_active |-> TRUE, is_admin |-> FALSE])
            /\ result' = Response("server_register_user", 200, None,
                             "Registration successful! Welcome to HSS Medicine.",
                             NoUserData, None)
            /\ UNCHANGED <<otp_codes, user_sessions, audit_log, logins>>
    /\ UNCHANGED <<program, inject, now, ticks, pipeVars, apiVars, panelVars>>

(* POST /api/auth/generate-otp *)
generate_otp_endpoint(email, otp_code) ==
    /\ program = "server"
    /\ LET lower == LowerEmail(email)
           expires_at == now + OTP_EXPIRY_MINUTES
       IN
       IF ~in_company_domain(email) THEN
            /\ result' = Response("generate_otp_endpoint", 400, None,
                             "Access restricted to hssmedicine.com employees only",
                             NoUserData, None)
            /\ UNCHANGED authVars
       ELSE
            /\ Len(otp_codes) < MaxOtps
            /\ otp_codes' = Append(DeactivateOtps(lower),
                  [email |-> lower, otp_code |-> otp_code, created_at |-> now,
                   expires_at |-> expires_at, is_used |-> FALSE, attempts |-> 0])
            /\ result' = Response("generate_otp_endpoint", 200, None,
                             "OTP sent. Valid for 10 minutes.", NoUserData, None)
            /\ UNCHANGED <<users, user_sessions, audit_log, logins>>
    /\ UNCHANGED <<program, inject, now, ticks, pipeVars, apiVars, panelVars>>

(* The documents db.otp_codes.find_one can return: same address, same      *)
(* code, not used, expires_at later than now                                *)
ValidOtps(lower, otp_code) ==
    {i \in 1..Len(otp_codes) :
        /\ otp_codes[i].email = lower
        /\ otp_codes[i].otp_code = otp_code
        /\ ~otp_codes[i].is_used
        /\ otp_codes[i].expires_at > now}

(* POST /api/auth/verify-otp *)
verify_otp_endpoint(email, otp_code) ==
    /\ program = "server"
    /\ LET lower == LowerEmail(email)
           found == ValidOtps(lower, otp_code)
       IN
       IF found = {} THEN
            /\ \A i \in 1..Len(otp_codes) :
                  otp_codes[i].email = lower /\ ~otp_codes[i].is_used
                      => otp_codes[i].attempts < MaxAttempts
            /\ otp_codes' = CountAttempt(lower)
            /\ result' = Response("verify_otp_endpoint", 400, None,
                             "Invalid or expired OTP", NoUserData, None)
            /\ UNCHANGED <<users, user_sessions, audit_log, logins>>
       ELSE \E otp_id \in found :
            IF otp_codes[otp_id].attempts >= ATTEMPT_LIMIT THEN
                /\ otp_codes' = [otp_codes EXCEPT ![otp_id].is_used = TRUE]
                /\ result' = Response("verify_otp_endpoint", 400, None,
                                 "Too many failed attempts", NoUserData, None)
                /\ UNCHANGED <<users, user_sessions, audit_log, logins>>
            ELSE IF UserIdOf(lower) = 0 THEN
                \* the update that marked the OTP used has been applied
                /\ otp_codes' = [otp_codes EXCEPT ![otp_id].is_used = TRUE]
                /\ result' = Response("verify_otp_endpoint", 404, None,
                                 "User not found. Please register first.",
                                 NoUserData, None)
                /\ UNCHANGED <<users, user_sessions, audit_log, logins>>
            ELSE
                LET user_id == UserIdOf(lower)
                    session_token == TOKENS[Len(user_sessions) + 1]
                    session == NewSession(user_id, session_token)
                IN
                /\ Len(user_sessions) < MaxSessions
                /\ Len(user_sessions) < Len(TOKENS)
                /\ otp_codes' = [otp_codes EXCEPT ![otp_id].is_used = TRUE]
                /\ user_sessions' = Append(user_sessions, session)
                /\ users' = [users EXCEPT ![user_id].login_count = @ + 1,
                                          ![user_id].last_login = <<now>>]
                /\ logins' = Append(logins, otp_id)
                /\ result' = Response("verify_otp_endpoint", 200, session_token,
                                 "Login successful!",
                                 [user_id |-> user_id, email |-> users[user_id].email,
                                  company_domain |-> users[user_id].company_domain,
                                  session_expires |-> session.expires_at], None)
                /\ UNCHANGED audit_log
    /\ UNCHANGED <<program, inject, now, ticks, pipeVars, apiVars, panelVars>>

----------------------------------------------------------------------------
(* The protected endpoints of the backend.  Each depends on                *)
(* validate_session, which runs before the body of the endpoint.  The       *)
(* documents are kept without their timestamps (created_at, updated_at).    *)

(* Variant: the lookup without its is_active and expires_at conditions *)
ValidSessions_any(session_token) ==
    {k \in 1..Len(user_sessions) : user_sessions[k].session_token = session_token}

(* The documents db.sessions.find_one can return in validate_session *)
ValidSessions(session_token) ==
    {k \in 1..Len(user_sessions) :
        /\ user_sessions[k].session_token = session_token
        /\ user_sessions[k].is_active
        /\ user_sessions[k].expires_at > now}

(* validate_session returns the user's data: the session was found and its *)
(* user exists                                                              *)
Authenticated(session_token) ==
    \E k \in ValidSessions(session_token) : user_sessions[k].user_id \in 1..Len(users)

(* db.sessions after validate_session: last_activity is set once the       *)
(* session has been found, before the user is looked up                     *)
SessionsAfterValidate(session_token) ==
    IF ValidSessions(session_token) = {} THEN user_sessions ELSE Touch(session_token)

(* The user_data validate_session hands to the endpoint *)
CurrentUser(session_token) ==
    user_sessions[CHOOSE k \in ValidSessions(session_token) : TRUE].user_id

(* Variant: every authenticated caller passes the admin test *)
IsAdmin_everyone(session_token) == TRUE

(* user_data.get("is_admin", False) of the user validate_session found *)
IsAdmin(session_token) == users[CurrentUser(session_token)].is_admin

(* What the endpoints leave alone *)
apiFrame == <<program, inject, now, ticks, pipeVars, panelVars, in_flight,
              users, otp_codes, audit_log, logins>>

(* validate_session raised: every exception in it, the HTTPExceptions it    *)
(* raises itself included, is turned into 401 'Authentication failed'       *)
Reject(op, session_token) ==
    /\ result' = Response(op, 401, None, "Authentication failed",
                          NoUserData, None)
    /\ user_sessions' = SessionsAfterValidate(session_token)
    /\ UNCHANGED <<reports, automation_requests, chat_messages>>

(* An endpoint that answers without writing to the collections *)
Answer(op, status, session_token, message, data) ==
    /\ result' = Response(op, status, None, message, NoUserData, data)
    /\ user_sessions' = Touch(session_token)
    /\ UNCHANGED <<reports, automation_requests, chat_messages>>

(* Variant: update_one on the presented token instead of update_many on    *)
(* the user                                                                 *)
SessionsAfterLogout_presented(session_token) ==
    [k \in 1..Len(user_sessions) |->
        IF user_sessions[k].session_token = session_token
        THEN [Touch(session_token)[k] EXCEPT !.is_active = FALSE]
        ELSE user_sessions[k]]

(* db.sessions after logout's update_many on the user_id validate_session  *)
(* returned: str(user["_id"]), which is the _id itself, a uuid4 string     *)
SessionsAfterLogout(session_token) ==
    [k \in 1..Len(user_sessions) |->
        IF user_sessions[k].user_id = CurrentUser(session_token)
        THEN [Touch(session_token)[k] EXCEPT !.is_active = FALSE]
        ELSE user_sessions[k]]

(* POST /api/auth/logout: every session of the user is deactivated *)
logout(session_token) ==
    /\ program = "server"
    /\ IF ~Authenticated(session_token) THEN Reject("logout", session_token)
       ELSE /\ user_sessions' = SessionsAfterLogout(session_token)
            /\ result' = Response("logout", 200, None,
                                  "Logged out successfully", NoUserData, None)
            /\ UNCHANGED <<reports, automation_requests, chat_messages>>
    /\ UNCHANGED apiFrame

(* POST /api/reports/generate.  openai is "no_key" when OPENAI_API_KEY is  *)
(* not set, "error" when the completion call fails, "ok" otherwise.         *)
server_generate_report(session_token, openai) ==
    /\ program = "server"
    /\ IF ~Authenticated(session_token)
       THEN Reject("server_generate_report", session_token)
       ELSE IF openai = "no_key"
       THEN Answer("server_generate_report", 500, session_token,
                   "OpenAI API not configured", None)
       ELSE IF openai = "error"
       THEN Answer("server_generate_report", 500, session_token,
                   "Failed to generate report", None)
       ELSE /\ Len(reports) < MaxDocs
            /\ reports' = Append(reports, [user_id |-> CurrentUser(session_token)])
            /\ user_sessions' = Touch(session_token)
            /\ result' = Response("server_generate_report", 200, None,
                                  "", NoUserData, "report")
            /\ UNCHANGED <<automation_requests, chat_messages>>
    /\ UNCHANGED apiFrame

(* GET /api/reports/history *)
get_report_history(session_token) ==
    /\ program = "server"
    /\ IF ~Authenticated(session_token)
       THEN Reject("get_report_history", session_token)
       ELSE Answer("get_report_history", 200, session_token, "", "reports")
    /\ UNCHANGED apiFrame

(* str.strip() on the titles and descriptions that are sent *)
Strip(text) ==
    CASE text = " old " -> "old"
      [] text = " new " -> "new"
      [] OTHER -> text

(* POST /api/automation/requests *)
create_automation_request(session_token) ==
    /\ program = "server"
    /\ IF ~Authenticated(session_token)
       THEN Reject("create_automation_request", session_token)
       ELSE /\ Len(automation_requests) < MaxDocs
            /\ automation_requests' =
                  Append(automation_requests,
                         [user_id |-> CurrentUser(session_token),
                          title |-> Strip(" old "), description |-> Strip("old"),
                          priority |-> "medium", status |-> "pending",
                          admin_notes |-> FALSE])
            /\ user_sessions' = Touch(session_token)
            /\ result' = Response("create_automation_request", 200, None,
                                  "Automation request created successfully",
                                  NoUserData, "request")
            /\ UNCHANGED <<reports, chat_messages>>
    /\ UNCHANGED apiFrame

(* GET /api/automation/requests *)
get_user_automation_requests(session_token) ==
    /\ program = "server"
    /\ IF ~Authenticated(session_token)
       THEN Reject("get_user_automation_requests", session_token)
       ELSE Answer("get_user_automation_requests", 200, session_token, "", "requests")
    /\ UNCHANGED apiFrame

(* The keys a client can put into the body of the update, and the value    *)
(* sent with each                                                           *)
UpdateKeys == {"title", "description", "priority", "status", "user_id", "admin_notes"}

SentValue ==
    [title |-> " new ", description |-> " new ", priority |-> "high",
     status |-> "completed", user_id |-> 1, admin_notes |-> TRUE]

(* The bodies tried: no key, each key alone, the keys of the edit form,    *)
(* every key                                                                *)
UpdateBodies ==
    {[k \in keys |-> SentValue[k]] :
        keys \in {{}} \cup {{key} : key \in UpdateKeys}
                     \cup {{"title", "description", "priority"}, UpdateKeys}}

(* The body the web client sends: the three fields of its edit form *)
FormUpdate == [k \in {"title", "description", "priority"} |-> SentValue[k]]

(* Variant: the whole body is passed to $set *)
update_fields_unfiltered(update_data) == update_data

(* update_fields, as built from the body; updated_at is not kept *)
update_fields(update_data) ==
    [k \in DOMAIN update_data \cap {"title", "description", "priority"} |->
        IF k = "priority" THEN update_data[k] ELSE Strip(update_data[k])]

(* The document after  $set: fields *)
SetFields(doc, fields) ==
    [f \in DOMAIN doc |-> IF f \in DOMAIN fields THEN fields[f] ELSE doc[f]]

(* PUT /api/automation/requests/{request_id}.  The 404 raised for a        *)
(* request that is not the caller's is caught by the endpoint's own         *)
(* except clause and answered as 500.                                       *)
update_automation_request(session_token, request_id, update_data) ==
    /\ program = "server"
    /\ IF ~Authenticated(session_token)
       THEN Reject("update_automation_request", session_token)
       ELSE IF ~(/\ request_id \in 1..Len(automation_requests)
                 /\ automation_requests[request_id].user_id = CurrentUser(session_token))
       THEN Answer("update_automation_request", 500, session_token,
                   "Failed to update automation request", None)
       ELSE /\ automation_requests' =
                  [automation_requests EXCEPT
                      ![request_id] = SetFields(@, update_fields(update_data))]
            /\ user_sessions' = Touch(session_token)
            /\ result' = Response("update_automation_request", 200, None,
                                  "Request updated successfully", NoUserData, None)
            /\ UNCHANGED <<reports, chat_messages>>
    /\ UNCHANGED apiFrame

(* The owner of the request or an admin *)
HasAccess(session_token, request_id) ==
    \/ automation_requests[request_id].user_id = CurrentUser(session_token)
    \/ IsAdmin(session_token)

(* POST /api/automation/requests/{request_id}/messages *)
add_message_to_request(session_token, request_id) ==
    /\ program = "server"
    /\ IF ~Authenticated(session_token)
       THEN Reject("add_message_to_request", session_token)
       ELSE IF \/ request_id \notin 1..Len(automation_requests)
               \/ ~HasAccess(session_token, request_id)
       THEN Answer("add_message_to_request", 500, session_token,
                   "Failed to add message", None)
       ELSE /\ Len(chat_messages) < MaxDocs
            /\ chat_messages' = Append(chat_messages,
                  [request_id |-> request_id, sender |-> CurrentUser(session_token),
                   sender_type |-> "user"])
            /\ user_sessions' = Touch(session_token)
            /\ result' = Response("add_message_to_request", 200, None,
                                  "Message added successfully", NoUserData, None)
            /\ UNCHANGED <<reports, automation_requests>>
    /\ UNCHANGED apiFrame

(* GET /api/automation/requests/{request_id}/messages *)
get_request_messages(session_token, request_id) ==
    /\ program = "server"
    /\ IF ~Authenticated(session_token)
       THEN Reject("get_request_messages", session_token)
       ELSE IF \/ request_id \notin 1..Len(automation_requests)
               \/ ~HasAccess(session_token, request_id)
       THEN Answer("get_request_messages", 500, session_token,
                   "Failed to fetch messages", None)
       ELSE Answer("get_request_messages", 200, session_token, "", "messages")
    /\ UNCHANGED apiFrame

(* GET /api/admin/requests.  The 403 raised for a caller who is not an     *)
(* admin is caught by the endpoint's own except clause, which answers 500.  *)
get_all_automation_requests(session_token) ==
    /\ program = "server"
    /\ IF ~Authenticated(session_token)
       THEN Reject("get_all_automation_requests", session_token)
       ELSE IF ~IsAdmin(session_token)
       THEN Answer("get_all_automation_requests", 500, session_token,
                   "Failed to fetch requests", None)
       ELSE Answer("get_all_automation_requests", 200, session_token, "", "requests")
    /\ UNCHANGED apiFrame

(* PUT /api/admin/requests/{request_id}/status *)
update_request_status(session_token, request_id, status, admin_notes) ==
    /\ program = "server"
    /\ IF ~Authenticated(session_token)
       THEN Reject("update_request_status", session_token)
       ELSE IF \/ ~IsAdmin(session_token)
               \/ request_id \notin 1..Len(automation_requests)
       THEN Answer("update_request_status", 500, session_token,
                   "Failed to update request status", None)
       ELSE /\ admin_notes => Len(chat_messages) < MaxDocs
            /\ automation_requests' =
                  [automation_requests EXCEPT
                      ![request_id].status = status,
                      ![request_id].admin_notes = (@ \/ admin_notes)]
            /\ chat_messages' =
                  IF admin_notes
                  THEN Append(chat_messages,
                          [request_id |-> request_id,
                           sender |-> CurrentUser(session_token),
                           sender_type |-> "admin"])
                  ELSE chat_messages
            /\ user_sessions' = Touch(session_token)
            /\ result' = Response("update_request_status", 200, None,
                                  "Request status updated successfully",
                                  NoUserData, None)
            /\ UNCHANGED reports
    /\ UNCHANGED apiFrame

(* GET /api/admin/stats.  The 403 'Admin access required' raised inside    *)
(* the try block is caught by  except Exception , which answers 500.        *)
get_admin_stats(session_token) ==
    /\ program = "server"
    /\ IF ~Authenticated(session_token)
       THEN Reject("get_admin_stats", session_token)
       ELSE IF ~IsAdmin(session_token)
       THEN Answer("get_admin_stats", 500, session_token,
                   "Failed to fetch admin statistics", None)
       ELSE Answer("get_admin_stats", 200, session_token, "", "stats")
    /\ UNCHANGED apiFrame

(* The tokens a caller can present: those handed out so far, or a forgery *)
Tokens == {FORGED} \cup {user_sessions[k].session_token : k \in 1..Len(user_sessions)}

----------------------------------------------------------------------------
(* EnterpriseAuth driven with the addresses of one employee and an outsider *)
NextAuth ==
    \/ \E d \in Jumps : Tick(d)
    \/ \E e \in Emails : register_user(e, "none")
    \/ \E e \in Emails : \E c \in Codes : generate_otp(e, c, "none")
    \/ \E e \in Emails : \E c \in Codes : verify_otp(e, c, "none")
    \/ \E t \in Tokens : validate_session(t, "none")
    \/ \E t \in Tokens : logout_user(t, "none")

Next == NextAuth

Spec == Init /\ [][Next]_vars

(* EnterpriseAuth driven by two employees *)
NextUsers ==
    \/ \E d \in Jumps : Tick(d)
    \/ \E e \in UserEmails : register_user(e, "none")
    \/ \E e \in UserEmails : \E c \in UserCodes : generate_otp(e, c, "none")
    \/ \E e \in UserEmails : \E c \in UserCodes : verify_otp(e, c, "none")
    \/ \E t \in Tokens : validate_session(t, "none")
    \/ \E t \in Tokens : logout_user(t, "none")

SpecUsers == Init /\ [][NextUsers]_vars

(* Registration, OTP issuance and OTP verification of both implementations, *)
(* each run driving one of them                                             *)
InitOtp ==
    /\ program \in {"auth_system", "server"}
    /\ inject = FALSE
    /\ now = 0
    /\ ticks = 0
    /\ InitAuthTables
    /\ InitApi
    /\ InitPanel
    /\ InitPipe
    /\ result = Res("init", None, FALSE, "", "none", NoUserData)

NextOtp ==
    \/ \E d \in Jumps : Tick(d)
    \/ \E e \in OtpEmails : register_user(e, "none")
    \/ \E e \in OtpEmails : \E c \in Codes : generate_otp(e, c, "none")
    \/ \E e \in OtpEmails : \E c \in Codes : verify_otp(e, c, "none")
    \/ \E e \in OtpEmails : server_register_user(e)
    \/ \E e \in OtpEmails : \E c \in Codes : generate_otp_endpoint(e, c)
    \/ \E e \in OtpEmails : \E c \in Codes : verify_otp_endpoint(e, c)

SpecOtp == InitOtp /\ [][NextOtp]_vars

(* Registration and OTP issuance driven with raw form input *)
NextDomain ==
    \/ \E d \in Jumps : Tick(d)
    \/ \E e \in RawEmails : register_user(e, "none")
    \/ \E e \in RawEmails : \E c \in Codes : generate_otp(e, c, "none")

SpecDomain == Init /\ [][NextDomain]_vars

(* EnterpriseAuth with database and mail steps that may fail *)
InitFaults ==
    /\ program = "auth_system"
    /\ inject = TRUE
    /\ now = 0
    /\ ticks = 0
    /\ InitAuthTables
    /\ InitApi
    /\ InitPanel
    /\ InitPipe
    /\ result = Res("init", None, FALSE, "", "none", NoUserData)

NextFaults ==
    \/ \E d \in Jumps : Tick(d)
    \/ \E e \in FaultEmails : \E f \in Faults({"db", "company"}) : register_user(e, f)
    \/ \E e \in FaultEmails : \E c \in Codes :
          \E f \in Faults({"db", "mail_lookup", "mail_save"}) : generate_otp(e, c, f)
    \/ \E e \in FaultEmails : \E c \in Codes : \E f \in Faults({"db"}) : verify_otp(e, c, f)
    \/ \E t \in Tokens : \E f \in Faults({"db"}) : validate_session(t, f)
    \/ \E t \in Tokens : \E f \in Faults({"db"}) : logout_user(t, f)

SpecFaults == InitFaults /\ [][NextFaults]_vars

(* The protected endpoints of the backend driven one request at a time by  *)
(* two registered users, each of whom has just been sent an OTP.            *)
(* Registration never sets is_admin, so the administrator's document is in  *)
(* db.users from the start, next to the document registration created for   *)
(* an employee.                                                             *)
Administrator ==
    [email |-> <<"adm", "hssmedicine.com">>, company_domain |-> COMPANY_DOMAIN,
     login_count |-> 0, last_login |-> <<>>, is_active |-> TRUE, is_admin |-> TRUE]

Employee ==
    [email |-> <<"bob", "hssmedicine.com">>, company_domain |-> COMPANY_DOMAIN,
     login_count |-> 0, last_login |-> <<>>, is_active |-> TRUE, is_admin |-> FALSE]

ApiEmails == { <<"adm", "hssmedicine.com">>, <<"bob", "hssmedicine.com">> }

(* The document generate_otp_endpoint stores at time 0 *)
IssuedOtp(email, otp_code) ==
    [email |-> email, otp_code |-> otp_code, created_at |-> 0,
     expires_at |-> OTP_EXPIRY_MINUTES, is_used |-> FALSE, attempts |-> 0]

RequestIds == 1..MaxDocs

(* The status an administrator sets *)
Statuses == {"completed"}

InitServer ==
    /\ program = "server"
    /\ inject = FALSE
    /\ now = 0
    /\ ticks = 0
    /\ users = <<Administrator, Employee>>
    /\ otp_codes = <<IssuedOtp(Administrator.email, "111111"),
                     IssuedOtp(Employee.email, "111111")>>
    /\ user_sessions = <<>>
    /\ audit_log = <<>>
    /\ logins = <<>>
    /\ InitApi
    /\ InitPanel
    /\ InitPipe
    /\ result = Res("init", None, FALSE, "", "none", NoUserData)

NextServer ==
    \/ \E d \in Jumps : Tick(d)
    \/ \E e \in ApiEmails : \E c \in UserCodes : verify_otp_endpoint(e, c)
    \/ \E t \in Tokens : logout(t)
    \/ \E t \in Tokens : \E openai \in {"no_key", "error", "ok"} :
          server_generate_report(t, openai)
    \/ \E t \in Tokens : get_report_history(t)
    \/ \E t \in Tokens : create_automation_request(t)
    \/ \E t \in Tokens : get_user_automation_requests(t)
    \/ \E t \in Tokens : \E r \in RequestIds : update_automation_request(t, r, FormUpdate)
    \/ \E t \in Tokens : \E r \in RequestIds : add_message_to_request(t, r)
    \/ \E t \in Tokens : \E r \in RequestIds : get_request_messages(t, r)
    \/ \E t \in Tokens : get_all_automation_requests(t)
    \/ \E t \in Tokens : \E r \in RequestIds :
          \E st \in Statuses : \E notes \in BOOLEAN :
             update_request_status(t, r, st, notes)
    \/ \E t \in Tokens : get_admin_stats(t)

SpecServer == InitServer /\ [][NextServer]_vars

(* The protected endpoints with the same two users in db.users, where the  *)
(* employee requests and verifies OTPs repeatedly and so holds several      *)
(* sessions at a time.                                                      *)
SessionEmails == { Employee.email }

InitSessions ==
    /\ program = "server"
    /\ inject = FALSE
    /\ now = 0
    /\ ticks = 0
    /\ users = <<Administrator, Employee>>
    /\ otp_codes = <<>>
    /\ user_sessions = <<>>
    /\ audit_log = <<>>
    /\ logins = <<>>
    /\ InitApi
    /\ InitPanel
    /\ InitPipe
    /\ result = Res("init", None, FALSE, "", "none", NoUserData)

NextSessions ==
    \/ \E d \in Jumps : Tick(d)
    \/ \E e \in SessionEmails : \E c \in UserCodes : generate_otp_endpoint(e, c)
    \/ \E e \in SessionEmails : \E c \in UserCodes : verify_otp_endpoint(e, c)
    \/ \E t \in Tokens : logout(t)
    \/ \E t \in Tokens : \E openai \in {"no_key", "error", "ok"} :
          server_generate_report(t, openai)
    \/ \E t \in Tokens : get_report_history(t)
    \/ \E t \in Tokens : create_automation_request(t)
    \/ \E t \in Tokens : get_user_automation_requests(t)
    \/ \E t \in Tokens : \E r \in RequestIds : update_automation_request(t, r, FormUpdate)
    \/ \E t \in Tokens : \E r \in RequestIds : add_message_to_request(t, r)
    \/ \E t \in Tokens : \E r \in RequestIds : get_request_messages(t, r)
    \/ \E t \in Tokens : get_all_automation_requests(t)
    \/ \E t \in Tokens : \E r \in RequestIds :
          \E st \in Statuses : \E notes \in BOOLEAN :
             update_request_status(t, r, st, notes)
    \/ \E t \in Tokens : get_admin_stats(t)

SpecSessions == InitSessions /\ [][NextSessions]_vars

(* The automation requests of the same two users, edited with every body   *)
(* a client can send and handled by the administrator.                      *)
NextRequests ==
    \/ \E d \in Jumps : Tick(d)
    \/ \E e \in ApiEmails : \E c \in UserCodes : verify_otp_endpoint(e, c)
    \/ \E t \in Tokens : create_automation_request(t)
    \/ \E t \in Tokens : \E r \in RequestIds : \E body \in UpdateBodies :
          update_automation_request(t, r, body)
    \/ \E t \in Tokens : \E r \in RequestIds :
          \E st \in Statuses : \E notes \in BOOLEAN :
             update_request_status(t, r, st, notes)

SpecRequests == InitServer /\ [][NextRequests]_vars

----------------------------------------------------------------------------
(* POST /api/auth/verify-otp served concurrently.  The handler is a        *)
(* coroutine: at each await on a database call the event loop may run      *)
(* another request, so each database call is a step of its own.  A request *)
(* in flight carries the handler's locals: otp_record and user as indexes  *)
(* into the collections (0 for none), and the response once it is sent.     *)
NewRequest(email, otp_code) ==
    [email |-> email, otp_code |-> otp_code, pc |-> "find_otp",
     otp_record |-> 0, user |-> 0, session_token |-> None,
     status |-> 0, detail |-> ""]

raceFrame == <<program, inject, now, ticks, pipeVars, panelVars, audit_log,
               reports, automation_requests, chat_messages>>

(* uvicorn hands a request to the handler *)
ReceiveVerifyOtp(email, otp_code) ==
    /\ program = "server"
    /\ Len(in_flight) < MaxRequests
    /\ in_flight' = Append(in_flight, NewRequest(email, otp_code))
    /\ UNCHANGED <<users, otp_codes, user_sessions, logins, result, raceFrame>>

(* The response leaves the handler *)
Respond(r, status, detail) ==
    /\ in_flight' = [in_flight EXCEPT ![r].pc = "done", ![r].status = status,
                                      ![r].detail = detail]
    /\ result' = Response("verify_otp_endpoint", status, in_flight[r].session_token,
                          detail, NoUserData, None)

(* await db.otp_codes.find_one(...), then the attempts test on the         *)
(* document it returned                                                     *)
VerifyFindOtp(r) ==
    /\ program = "server"
    /\ r \in 1..Len(in_flight)
    /\ in_flight[r].pc = "find_otp"
    /\ LET found == ValidOtps(LowerEmail(in_flight[r].email), in_flight[r].otp_code) IN
       IF found = {}
       THEN in_flight' = [in_flight EXCEPT ![r].pc = "inc_attempts"]
       ELSE \E otp_id \in found :
            in_flight' = [in_flight EXCEPT
                ![r].otp_record = otp_id,
                ![r].pc = IF otp_codes[otp_id].attempts >= ATTEMPT_LIMIT
                          THEN "limit_mark_used" ELSE "mark_used"]
    /\ UNCHANGED <<users, otp_codes, user_sessions, logins, result, raceFrame>>

(* await db.otp_codes.update_many($inc attempts), then 400 *)
VerifyIncAttempts(r) ==
    /\ program = "server"
    /\ r \in 1..Len(in_flight)
    /\ in_flight[r].pc = "inc_attempts"
    /\ \A i \in 1..Len(otp_codes) :
          otp_codes[i].email = LowerEmail(in_flight[r].email) /\ ~otp_codes[i].is_used
              => otp_codes[i].attempts < MaxAttempts
    /\ otp_codes' = CountAttempt(LowerEmail(in_flight[r].email))
    /\ Respond(r, 400, "Invalid or expired OTP")
    /\ UNCHANGED <<users, user_sessions, logins, raceFrame>>

(* await db.otp_codes.update_one(is_used), then 400 *)
VerifyLimitMarkUsed(r) ==
    /\ program = "server"
    /\ r \in 1..Len(in_flight)
    /\ in_flight[r].pc = "limit_mark_used"
    /\ otp_codes' = [otp_codes EXCEPT ![in_flight[r].otp_record].is_used = TRUE]
    /\ Respond(r, 400, "Too many failed attempts")
    /\ UNCHANGED <<users, user_sessions, logins, raceFrame>>

(* await db.otp_codes.update_one(is_used) *)
VerifyMarkUsed(r) ==
    /\ program = "server"
    /\ r \in 1..Len(in_flight)
    /\ in_flight[r].pc = "mark_used"
    /\ otp_codes' = [otp_codes EXCEPT ![in_flight[r].otp_record].is_used = TRUE]
    /\ in_flight' = [in_flight EXCEPT ![r].pc = "find_user"]
    /\ UNCHANGED <<users, user_sessions, logins, result, raceFrame>>

(* await db.users.find_one(...), 404 when there is none *)
VerifyFindUser(r) ==
    /\ program = "server"
    /\ r \in 1..Len(in_flight)
    /\ in_flight[r].pc = "find_user"
    /\ LET user_id == UserIdOf(LowerEmail(in_flight[r].email)) IN
       IF user_id = 0
       THEN Respond(r, 404, "User not found. Please register first.")
       ELSE /\ in_flight' = [in_flight EXCEPT ![r].user = user_id,
                                              ![r].pc = "insert_session"]
            /\ UNCHANGED result
    /\ UNCHANGED <<users, otp_codes, user_sessions, logins, raceFrame>>

(* await db.sessions.insert_one(session_doc) *)
VerifyInsertSession(r) ==
    /\ program = "server"
    /\ r \in 1..Len(in_flight)
    /\ in_flight[r].pc = "insert_session"
    /\ Len(user_sessions) < MaxSessions
    /\ Len(user_sessions) < Len(TOKENS)
    /\ LET session_token == TOKENS[Len(user_sessions) + 1] IN
          /\ user_sessions' = Append(user_sessions,
                                     NewSession(in_flight[r].user, session_token))
          /\ in_flight' = [in_flight EXCEPT ![r].session_token = session_token,
                                            ![r].pc = "update_user"]
    /\ logins' = Append(logins, in_flight[r].otp_record)
    /\ UNCHANGED <<users, otp_codes, result, raceFrame>>

(* await db.users.update_one(last_login, login_count), then 200 *)
VerifyUpdateUser(r) ==
    /\ program = "server"
    /\ r \in 1..Len(in_flight)
    /\ in_flight[r].pc = "update_user"
    /\ users' = [users EXCEPT ![in_flight[r].user].login_count = @ + 1,
                              ![in_flight[r].user].last_login = <<now>>]
    /\ Respond(r, 200, "Login successful!")
    /\ UNCHANGED <<otp_codes, user_sessions, logins, raceFrame>>

(* Concurrent verify-otp requests of a registered employee who has been    *)
(* sent an OTP and may have mistyped it twice already                       *)
InitRace ==
    /\ program = "server"
    /\ inject = FALSE
    /\ now = 0
    /\ ticks = 0
    /\ users = <<Employee>>
    /\ \E a \in {0, ATTEMPT_LIMIT - 1} :
          otp_codes = <<[IssuedOtp(Employee.email, "111111") EXCEPT !.attempts = a]>>
    /\ user_sessions = <<>>
    /\ audit_log = <<>>
    /\ logins = <<>>
    /\ InitApi
    /\ InitPanel
    /\ InitPipe
    /\ result = Res("init", None, FALSE, "", "none", NoUserData)

Requests == 1..MaxRequests

NextRace ==
    \/ \E d \in Jumps : Tick(d)
    \/ \E c \in Codes : ReceiveVerifyOtp(Employee.email, c)
    \/ \E r \in Requests : VerifyFindOtp(r)
    \/ \E r \in Requests : VerifyIncAttempts(r)
    \/ \E r \in Requests : VerifyLimitMarkUsed(r)
    \/ \E r \in Requests : VerifyMarkUsed(r)
    \/ \E r \in Requests : VerifyFindUser(r)
    \/ \E r \in Requests : VerifyInsertSession(r)
    \/ \E r \in Requests : VerifyUpdateUser(r)

SpecRace == InitRace /\ [][NextRace]_vars

----------------------------------------------------------------------------
(* The admin panel (admin/admin_panel.py) on the EnterpriseAuth database.  *)
(* No operation of the repository sets users.is_admin or users.is_active,  *)
(* so the rows of the table and their flags are those the database was     *)
(* provisioned with.                                                        *)
UserRow(email, is_active, is_admin) ==
    [email |-> email, company_domain |-> email[2], login_count |-> 0,
     last_login |-> <<>>, is_active |-> is_active, is_admin |-> is_admin]

(* What can be typed into the Admin Email field *)
AdminInputs == { <<"ann", "hhamedicine.com">>,
                 <<"Ann", "HHAMedicine.com">>,
                 <<"bob", "hssmedicine.com">>,
                 <<"adm", "hssmedicine.com">>,
                 <<"eve", "evil.com">>,
                 <<"">> }

(* The row the SELECT of authenticate_admin returns, 0 for none *)
ActiveUserIdOf(email) ==
    IF \E i \in 1..Len(users) : users[i].email = email /\ users[i].is_active
    THEN CHOOSE i \in 1..Len(users) : users[i].email = email /\ users[i].is_active
    ELSE 0

panelFrame == <<program, inject, now, ticks, authVars, result, pipeVars, apiVars>>

(* AdminPanel.authenticate_admin, the command of the login button.  db_ok  *)
(* is FALSE when the database cannot be read.                               *)
authenticate_admin(typed, db_ok) ==
    /\ program = "admin_panel"
    /\ screen = "login"
    /\ LET email == LowerEmail(typed)
           user_id == ActiveUserIdOf(email)
       IN
       IF email = <<"">> THEN
            /\ admin_status_label' = "Please enter admin email"
            /\ UNCHANGED <<admin_authenticated, current_admin_user, screen>>
       ELSE IF ~db_ok THEN
            /\ admin_status_label' = "Authentication failed"
            /\ UNCHANGED <<admin_authenticated, current_admin_user, screen>>
       ELSE IF user_id = 0 THEN
            /\ admin_status_label' = "Admin user not found"
            /\ UNCHANGED <<admin_authenticated, current_admin_user, screen>>
       ELSE IF ~users[user_id].is_admin THEN
            /\ admin_status_label' = "Access denied - Admin privileges required"
            /\ UNCHANGED <<admin_authenticated, current_admin_user, screen>>
       ELSE
            \* no OTP is generated or verified here
            /\ admin_authenticated' = TRUE
            /\ current_admin_user' = [id |-> user_id, email |-> email]
            /\ screen' = "dashboard"
            /\ admin_status_label' = ""
    /\ UNCHANGED panelFrame

(* AdminPanel.admin_logout, the command of the dashboard's Logout button *)
admin_logout ==
    /\ program = "admin_panel"
    /\ screen = "dashboard"
    /\ admin_authenticated' = FALSE
    /\ current_admin_user' = NoAdmin
    /\ screen' = "login"
    /\ admin_status_label' = ""
    /\ UNCHANGED panelFrame

InitAdmin ==
    /\ program = "admin_panel"
    /\ inject = FALSE
    /\ now = 0
    /\ ticks = 0
    /\ \E flags \in [1..3 -> BOOLEAN \X BOOLEAN] :
          users = << UserRow(<<"ann", "hhamedicine.com">>, flags[1][1], flags[1][2]),
                     UserRow(<<"bob", "hssmedicine.com">>, flags[2][1], flags[2][2]),
                     UserRow(<<"adm", "hssmedicine.com">>, flags[3][1], flags[3][2]) >>
    /\ otp_codes = <<>>
    /\ user_sessions = <<>>
    /\ audit_log = <<>>
    /\ logins = <<>>
    /\ InitApi
    /\ InitPanel
    /\ InitPipe
    /\ result = Res("init", None, FALSE, "", "none", NoUserData)

NextAdmin ==
    \/ \E typed \in AdminInputs : \E db_ok \in BOOLEAN : authenticate_admin(typed, db_ok)
    \/ admin_logout

SpecAdmin == InitAdmin /\ [][NextAdmin]_vars

----------------------------------------------------------------------------
(* The audio files.  A clip is what the wave module sees of a file:        *)
(* whether it can be opened, the parameters and the frame count its header *)
(* declares (getnframes), and the frames readframes delivers, which are    *)
(* fewer than declared when the file ends early.                            *)
Clip(readable, framerate, nchannels, sampwidth, nframes, frames) ==
    [readable |-> readable,
     params |-> [framerate |-> framerate, nchannels |-> nchannels,
                 sampwidth |-> sampwidth],
     nframes |-> nframes, frames |-> frames]

(* Clips as record_audio_clip writes them: 44100 Hz, mono, 16 bit, and at  *)
(* least one frame                                                          *)
RecordedClips == { Clip(TRUE, 44100, 1, 2, 2, <<"a1", "a2">>),
                   Clip(TRUE, 44100, 1, 2, 1, <<"b1">>) }

(* Files of any origin: other parameters, a file that cannot be opened, a  *)
(* file without frames, a file cut off after its header                     *)
AnyClips == RecordedClips \cup
            { Clip(TRUE, 8000, 1, 2, 1, <<"r1">>),
              Clip(TRUE, 44100, 2, 2, 1, <<"c1">>),
              Clip(TRUE, 44100, 1, 1, 1, <<"w1">>),
              Clip(FALSE, 0, 0, 0, 0, <<>>),
              Clip(TRUE, 44100, 1, 2, 0, <<>>),
              Clip(TRUE, 44100, 1, 2, 2, <<>>) }

ListsOf(clips, lo) ==
    UNION {[1..n -> clips] : n \in lo..MaxClips}

(* The loop of merge_audio_clips over the files: the frames written to the *)
(* output and the count kept in total_frames                                *)
RECURSIVE CopyClips(_, _)
CopyClips(files, params) ==
    IF files = <<>> THEN [written |-> <<>>, total_frames |-> 0]
    ELSE LET input_file == Head(files)
             rest == CopyClips(Tail(files), params)
         IN  IF ~input_file.readable THEN rest
             ELSE IF input_file.params # params THEN rest
             ELSE [written |-> input_file.frames \o rest.written,
                   total_frames |-> input_file.nframes + rest.total_frames]

(* merge_audio_clips: the value returned and the state of final_audio.wav. *)
(* out_ok tells whether final_audio.wav can be opened for writing.          *)
merge_audio_clips(files, out_ok) ==
    IF files = <<>> THEN [path |-> None, output |-> NoOutput]
    ELSE IF ~files[1].readable THEN [path |-> None, output |-> NoOutput]
    ELSE IF ~out_ok THEN [path |-> None, output |-> NoOutput]
    ELSE LET merged == CopyClips(files, files[1].params) IN
         [path |-> IF merged.total_frames = 0 THEN None ELSE "final_audio.wav",
          output |-> [created |-> TRUE, frames |-> merged.written]]

pipeOther == <<inject, now, ticks, authVars, result, apiVars, panelVars, recVars,
               sideVars>>

(* One call of merge_audio_clips on a list of files of any origin *)
CallMerge(out_ok) ==
    /\ program = "merge_audio"
    /\ pc = "call"
    /\ LET r == merge_audio_clips(audio_files, out_ok) IN
          /\ final_audio_path' = r.path
          /\ output_file' = r.output
    /\ pc' = "returned"
    /\ calls' = Append(calls, [stage |-> "merge", arg |-> "audio_files"])
    /\ UNCHANGED <<program, audio_files, transcript, summary, pipeOther>>

InitMerge ==
    /\ program = "merge_audio"
    /\ inject = FALSE
    /\ now = 0
    /\ ticks = 0
    /\ InitAuthTables
    /\ InitApi
    /\ InitPanel
    /\ result = Res("init", None, FALSE, "", "none", NoUserData)
    /\ InitRec
    /\ InitSide
    /\ pc = "call"
    /\ audio_files \in ListsOf(AnyClips, 0)
    /\ output_file = NoOutput
    /\ final_audio_path = None
    /\ transcript = None
    /\ summary = None
    /\ calls = <<>>

NextMerge == \E out_ok \in BOOLEAN : CallMerge(out_ok)

SpecMerge == InitMerge /\ [][NextMerge]_vars

----------------------------------------------------------------------------
(* The command-line entry points main.main and run_full_system.main *)
EntryPoints == {"main", "run_full_system"}

(* Stage 1: record_multiple_clips returns a list that is not empty, or the *)
(* user interrupts it (KeyboardInterrupt, caught by the entry point).       *)
StepRecord(interrupted) ==
    /\ program \in EntryPoints
    /\ pc = "start"
    /\ calls' = Append(calls, [stage |-> "record", arg |-> None])
    /\ IF interrupted
       THEN /\ pc' = "done"
            /\ UNCHANGED audio_files
       ELSE /\ audio_files' \in ListsOf(RecordedClips, 1)
            /\ pc' = IF audio_files' = <<>> THEN "done" ELSE "recorded"
    /\ UNCHANGED <<program, output_file, final_audio_path, transcript, summary,
                   pipeOther>>

(* Stage 2: merge_audio_clips.  run_full_system.main returns when the      *)
(* result is None; main.main goes on to the next stage with it.             *)
StepMerge(out_ok) ==
    /\ program \in EntryPoints
    /\ pc = "recorded"
    /\ calls' = Append(calls, [stage |-> "merge", arg |-> "audio_files"])
    /\ LET r == merge_audio_clips(audio_files, out_ok) IN
          /\ final_audio_path' = r.path
          /\ output_file' = r.output
          /\ pc' = IF program = "run_full_system" /\ r.path = None
                   THEN "done" ELSE "merged"
    /\ UNCHANGED <<program, audio_files, transcript, summary, pipeOther>>

(* transcribe_audio: None when the path is None (os.path.exists raises,    *)
(* the error is caught) or when the API call fails                          *)
transcribe_audio(audio_file_path, api_ok) ==
    IF audio_file_path = None THEN None
    ELSE IF api_ok THEN "transcript" ELSE None

(* Stage 3: transcribe_audio, then the transcript is written to a file; an *)
(* error while writing ends the run in the entry point's except clause.     *)
StepTranscribe(api_ok, saved) ==
    /\ program \in EntryPoints
    /\ pc = "merged"
    /\ calls' = Append(calls, [stage |-> "transcribe", arg |-> final_audio_path])
    /\ transcript' = transcribe_audio(final_audio_path, api_ok)
    /\ pc' = IF transcript' = None \/ ~saved THEN "done" ELSE "transcribed"
    /\ UNCHANGED <<program, audio_files, output_file, final_audio_path, summary,
                   pipeOther>>

(* generate_dream_team_email (main.main) *)
generate_dream_team_email(text, api_ok) == IF api_ok THEN "email_text" ELSE None

(* generate_report (run_full_system.main) *)
generate_report(text, api_ok) == IF api_ok THEN "report_html" ELSE None

(* Stage 4: the summary of the transcript *)
StepSummarize(api_ok) ==
    /\ program \in EntryPoints
    /\ pc = "transcribed"
    /\ calls' = Append(calls, [stage |-> "summarize", arg |-> transcript])
    /\ summary' = IF program = "main"
                  THEN generate_dream_team_email(transcript, api_ok)
                  ELSE generate_report(transcript, api_ok)
    /\ pc' = IF summary' = None THEN "done" ELSE "summarized"
    /\ UNCHANGED <<program, audio_files, output_file, final_audio_path, transcript,
                   pipeOther>>

(* Stage 5: send_email_outlook_draft; its result only selects the message  *)
(* printed before the run ends                                              *)
StepEmail ==
    /\ program \in EntryPoints
    /\ pc = "summarized"
    /\ calls' = Append(calls, [stage |-> "email", arg |-> summary])
    /\ pc' = "done"
    /\ UNCHANGED <<program, audio_files, output_file, final_audio_path, transcript,
                   summary, pipeOther>>

InitPipeline ==
    /\ program \in EntryPoints
    /\ inject = FALSE
    /\ now = 0
    /\ ticks = 0
    /\ InitAuthTables
    /\ InitApi
    /\ InitPanel
    /\ result = Res("init", None, FALSE, "", "none", NoUserData)
    /\ InitRec
    /\ InitSide
    /\ pc = "start"
    /\ audio_files = <<>>
    /\ output_file = NoOutput
    /\ final_audio_path = None
    /\ transcript = None
    /\ summary = None
    /\ calls = <<>>

NextPipeline ==
    \/ \E interrupted \in BOOLEAN : StepRecord(interrupted)
    \/ \E out_ok \in BOOLEAN : StepMerge(out_ok)
    \/ \E api_ok \in BOOLEAN : \E saved \in BOOLEAN : StepTranscribe(api_ok, saved)
    \/ \E api_ok \in BOOLEAN : StepSummarize(api_ok)
    \/ StepEmail

SpecPipeline == InitPipeline /\ [][NextPipeline]_vars

----------------------------------------------------------------------------
(* record_multiple_clips (utils/record_voice.py), one action per call of   *)
(* record_audio_clip and per answer to 'Record another clip? (Y/n)'.       *)

(* audio_clips/clip_<n>.wav *)
FilePath(n) == [dir |-> "audio_clips", filename |-> <<"clip_", n, ".wav">>]

(* How one call of record_audio_clip can end: the file is written and its  *)
(* path returned; nothing was recorded; the recording is interrupted; the  *)
(* input stream fails; writing the file fails after it was opened.  All    *)
(* but the first return None.                                               *)
RecordOutcomes == {"saved", "no_audio", "cancelled", "stream_error", "write_error"}

(* What is typed at the prompt *)
Typed == {"", "y", " Yes", "n", "NO ", "maybe"}

(* input(...).strip().lower() *)
StripLower(typed) ==
    CASE typed = " Yes" -> "yes"
      [] typed = "NO " -> "no"
      [] OTHER -> typed

(* Variant: 'no' ends the recording whether or not a clip was saved *)
MayReturn_always(files) == TRUE

(* if audio_files: *)
MayReturn(files) == files # <<>>

recFrame == <<program, inject, now, ticks, authVars, result, apiVars, panelVars,
              output_file, final_audio_path, transcript, summary, calls, sideVars>>

(* The head of the outer loop: record_audio_clip(f"clip_{clip_number}.wav") *)
(* and the append of its result                                             *)
RecordClip(outcome) ==
    /\ program = "record_voice"
    /\ pc = "record"
    /\ audio_files' = IF outcome = "saved"
                      THEN Append(audio_files, FilePath(clip_number))
                      ELSE audio_files
    /\ clip_files' =
          IF outcome \in {"saved", "write_error"}
          THEN Append(clip_files, [path |-> FilePath(clip_number),
                                   complete |-> (outcome = "saved")])
          ELSE clip_files
    /\ pc' = "ask"
    /\ UNCHANGED <<clip_number, response, recFrame>>

(* One pass of the inner loop: an answer is read and acted on *)
AnswerPrompt(typed) ==
    /\ program = "record_voice"
    /\ pc = "ask"
    /\ response' = StripLower(typed)
    /\ IF response' \in {"", "y", "yes"}
       THEN /\ clip_number < MaxClips
            /\ clip_number' = clip_number + 1
            /\ pc' = "record"
       ELSE IF response' \in {"n", "no"} /\ MayReturn(audio_files)
       THEN /\ pc' = "returned"
            /\ UNCHANGED clip_number
       ELSE /\ pc' = "ask"
            /\ UNCHANGED clip_number
    /\ UNCHANGED <<audio_files, clip_files, recFrame>>

(* input() at the prompt raises (end of input, Ctrl-C): the exception *)
(* leaves record_multiple_clips, which returns nothing                *)
PromptInterrupted ==
    /\ program = "record_voice"
    /\ pc = "ask"
    /\ pc' = "raised"
    /\ UNCHANGED <<audio_files, recVars, recFrame>>

InitRecord ==
    /\ program = "record_voice"
    /\ inject = FALSE
    /\ now = 0
    /\ ticks = 0
    /\ InitAuthTables
    /\ InitApi
    /\ InitPanel
    /\ InitRec
    /\ InitSide
    /\ result = Res("init", None, FALSE, "", "none", NoUserData)
    /\ pc = "record"
    /\ audio_files = <<>>
    /\ output_file = NoOutput
    /\ final_audio_path = None
    /\ transcript = None
    /\ summary = None
    /\ calls = <<>>

NextRecord ==
    \/ \E outcome \in RecordOutcomes : RecordClip(outcome)
    \/ \E typed \in Typed : AnswerPrompt(typed)
    \/ PromptInterrupted

SpecRecord == InitRecord /\ [][NextRecord]_vars

----------------------------------------------------------------------------
(* EnterpriseAuth and the backend side by side.  One trace of operations   *)
(* is given to both, each on its own tables and at the same clock values:  *)
(* every operation is run by EnterpriseAuth first, then by the backend.    *)
(* The tables of the implementation that is not running are kept in peer,  *)
(* together with its last result.  The k-th token and the code of an OTP   *)
(* are the same in both.  validate-session of the backend is taken to be   *)
(* GET /api/reports/history, which does nothing but validate the session.  *)

SideEmails == { <<"bob", "hssmedicine.com">> }

(* The operations of a trace *)
SideOps ==
    {[NoPending EXCEPT !.op = "register", !.email = e] : e \in SideEmails}
    \cup {[NoPending EXCEPT !.op = "generate", !.email = e, !.otp_code = c] :
             e \in SideEmails, c \in UserCodes}
    \cup {[NoPending EXCEPT !.op = "verify", !.email = e, !.otp_code = c] :
             e \in SideEmails, c \in Codes}
    \cup {[NoPending EXCEPT !.op = o, !.session_token = t] :
             o \in {"validate", "logout"},
             t \in {FORGED} \cup {TOKENS[k] : k \in 1..MaxSessions}}

(* The implementation has not yet run the pending operation *)
AtTurn == Res("turn", None, FALSE, "", "none", NoUserData)

(* The tables and the last result of the running implementation *)
Snapshot ==
    [users |-> users, otp_codes |-> otp_codes, user_sessions |-> user_sessions,
     audit_log |-> audit_log, logins |-> logins, result |-> result]

(* The other implementation takes over *)
SwitchTo(other) ==
    /\ program' = other
    /\ peer' = Snapshot
    /\ users' = peer.users
    /\ otp_codes' = peer.otp_codes
    /\ user_sessions' = peer.user_sessions
    /\ audit_log' = peer.audit_log
    /\ logins' = peer.logins
    /\ result' = AtTurn

sideFrame == <<inject, pc, audio_files, output_file, final_audio_path, transcript,
               summary, calls, recVars, apiVars, panelVars>>

(* EnterpriseAuth runs the pending operation *)
AuthRuns ==
    /\ result = AtTurn
    /\ \/ pending.op = "register" /\ register_user(pending.email, "none")
       \/ pending.op = "generate"
             /\ generate_otp(pending.email, pending.otp_code, "none")
       \/ pending.op = "verify"
             /\ verify_otp(pending.email, pending.otp_code, "none")
       \/ pending.op = "validate" /\ validate_session(pending.session_token, "none")
       \/ pending.op = "logout" /\ logout_user(pending.session_token, "none")

(* The backend runs the pending operation *)
ServerRuns ==
    /\ result = AtTurn
    /\ \/ pending.op = "register" /\ server_register_user(pending.email)
       \/ pending.op = "generate"
             /\ generate_otp_endpoint(pending.email, pending.otp_code)
       \/ pending.op = "verify"
             /\ verify_otp_endpoint(pending.email, pending.otp_code)
       \/ pending.op = "validate" /\ get_report_history(pending.session_token)
       \/ pending.op = "logout" /\ logout(pending.session_token)

(* EnterpriseAuth has answered: the same operation goes to the backend *)
HandOver ==
    /\ program = "auth_system"
    /\ result # AtTurn
    /\ SwitchTo("server")
    /\ UNCHANGED <<now, ticks, pending, sideFrame>>

(* Both have answered: the next operation of the trace, after a clock      *)
(* advance of d minutes                                                     *)
NextOperation(op, d) ==
    /\ program = "server"
    /\ result # AtTurn
    /\ d # 0 => ticks < MaxTicks
    /\ now' = now + d
    /\ ticks' = IF d = 0 THEN ticks ELSE ticks + 1
    /\ pending' = op
    /\ SwitchTo("auth_system")
    /\ UNCHANGED sideFrame

EmptyTables ==
    [users |-> <<>>, otp_codes |-> <<>>, user_sessions |-> <<>>,
     audit_log |-> <<>>, logins |-> <<>>, result |-> AtTurn]

InitSideBySide ==
    /\ program = "auth_system"
    /\ inject = FALSE
    /\ now = 0
    /\ ticks = 0
    /\ InitAuthTables
    /\ InitApi
    /\ InitPanel
    /\ InitRec
    /\ result = AtTurn
    /\ peer = EmptyTables
    /\ pending \in SideOps
    /\ pc = "idle"
    /\ audio_files = <<>>
    /\ output_file = NoOutput
    /\ final_audio_path = None
    /\ transcript = None
    /\ summary = None
    /\ calls = <<>>

NextSide ==
    \/ AuthRuns
    \/ HandOver
    \/ ServerRuns
    \/ \E op \in SideOps : \E d \in {0} \cup Jumps : NextOperation(op, d)

SpecSide == InitSideBySide /\ [][NextSide]_vars

----------------------------------------------------------------------------
(* Vocabulary of the properties *)

(* The domain of an address: what follows its last '@', lower-cased *)
DomainOf(email) == IF Len(email) < 2 THEN None ELSE Lower(email[Len(email)])

OutsideAllowedDomains(email) == DomainOf(email) \notin ALLOWED_DOMAINS

SessionsOf(session_token) ==
    {k \in 1..Len(user_sessions) : user_sessions[k].session_token = session_token}

ExpiredMessage == "OTP has expired. Please request a new one."
SessionExpiredMessage == "Session expired. Please login again."
InvalidSessionMessage == "Invalid session. Please login again."

----------------------------------------------------------------------------
(* C1: no users row and no otp_codes row is ever created for an e-mail     *)
(* whose domain is outside ALLOWED_DOMAINS: register_user and generate_otp *)
(* called with such an e-mail return success=False and change nothing, and *)
(* every users row has its company_domain in ALLOWED_DOMAINS.               *)
C1_DomainRestricted ==
    /\ [][\A e \in RawEmails : \A c \in Codes :
            (OutsideAllowedDomains(e)
               /\ (register_user(e, "none") \/ generate_otp(e, c, "none")))
            => (~result'.success /\ UNCHANGED authVars)]_vars
    /\ [](\A i \in 1..Len(users) :
            /\ users[i].company_domain \in ALLOWED_DOMAINS
            /\ ~OutsideAllowedDomains(users[i].email))
    /\ [](\A i \in 1..Len(otp_codes) : ~OutsideAllowedDomains(otp_codes[i].email))

----------------------------------------------------------------------------
(* C2: an OTP is valid for one-time use only and its lifecycle is one-way. *)
(* Once an OTP record is marked used it never becomes unused again; every  *)
(* successful verification (of EnterpriseAuth.verify_otp and of the        *)
(* backend's verify-otp endpoint) redeems a record that was unused and     *)
(* leaves it used, so no later verification with that record succeeds and  *)
(* each issued OTP yields at most one successful login.                     *)
C2_OtpOneTimeUse ==
    /\ [][/\ Len(otp_codes') >= Len(otp_codes)
          /\ \A i \in 1..Len(otp_codes) :
                otp_codes[i].is_used => otp_codes'[i].is_used
          /\ \A e \in OtpEmails : \A c \in Codes :
                ((verify_otp(e, c, "none") \/ verify_otp_endpoint(e, c))
                    /\ result'.success)
                => \E i \in 1..Len(otp_codes) :
                      /\ otp_codes[i].email = LowerEmail(e)
                      /\ otp_codes[i].otp_code = c
                      /\ ~otp_codes[i].is_used
                      /\ otp_codes'[i].is_used
                      /\ logins' = Append(logins, i)
          /\ Len(user_sessions') > Len(user_sessions)
                => Len(logins') = Len(logins) + 1]_vars
    /\ [](/\ Len(logins) = Len(user_sessions)
          /\ \A j \in 1..Len(logins) : \A k \in 1..Len(logins) :
                logins[j] = logins[k] => j = k)

C2_Witness ==
    /\ program = "server"
    /\ Len(logins) = 2
    /\ result.op = "verify_otp_endpoint"
    /\ ~result.success
    /\ \A i \in 1..Len(otp_codes) : otp_codes[i].is_used /\ otp_codes[i].expires_at > now

----------------------------------------------------------------------------
(* C3 as stated: verify_otp called with the code of the OTP last issued to *)
(* the address, whose expires_at lies before the current time, fails with  *)
(* the expiry message, leaves that OTP used and creates no session,        *)
(* whether or not that OTP was presented before.                            *)
C3_AnyExpiredOtpRejected ==
    [][\A e \in Emails : \A c \in Codes : \A i \in 1..Len(otp_codes) :
          (/\ otp_codes[i].email = LowerEmail(e)
           /\ \A j \in 1..Len(otp_codes) :
                 otp_codes[j].email = LowerEmail(e) => j <= i
           /\ otp_codes[i].otp_code = c
           /\ otp_codes[i].expires_at < now
           /\ verify_otp(e, c, "none"))
          => (/\ ~result'.success
              /\ result'.message = ExpiredMessage
              /\ otp_codes'[i].is_used
              /\ user_sessions' = user_sessions)]_vars

(* C3 amended: verify_otp called with the code of a still unused OTP whose *)
(* expires_at lies before the current time fails with 'OTP has expired.    *)
(* Please request a new one.', marks that OTP used and creates no session; *)
(* and no session is ever created from an OTP presented after its expiry.  *)
C3_ExpiredOtpRejected ==
    /\ [][\A e \in Emails : \A c \in Codes : \A i \in 1..Len(otp_codes) :
            (/\ otp_codes[i].email = LowerEmail(e)
             /\ otp_codes[i].otp_code = c
             /\ ~otp_codes[i].is_used
             /\ otp_codes[i].expires_at < now
             /\ verify_otp(e, c, "none"))
            => (/\ ~result'.success
                /\ result'.message = ExpiredMessage
                /\ otp_codes'[i].is_used
                /\ user_sessions' = user_sessions)]_vars
    /\ [](\A k \in 1..Len(user_sessions) :
            /\ k \in 1..Len(logins)
            /\ user_sessions[k].created_at <= otp_codes[logins[k]].expires_at
            /\ otp_codes[logins[k]].expires_at
                   = otp_codes[logins[k]].created_at + OTP_EXPIRY_MINUTES)

C3_Witness ==
    /\ result.op = "verify_otp"
    /\ result.message = ExpiredMessage
    /\ \E i \in 1..Len(otp_codes) : otp_codes[i].is_used /\ otp_codes[i].expires_at < now

----------------------------------------------------------------------------
(* C4: successful login path.  For a registered user whose latest OTP is   *)
(* still unredeemed (issued, no newer OTP since), has fewer than 3 failed  *)
(* attempts and is not past its expiry, verify_otp with the issued code    *)
(* returns success with a fresh session token and marks the OTP used, and  *)
(* validate_session on that token, made right afterwards, succeeds and     *)
(* returns that user's data.                                                *)
C4_LoginPath ==
    /\ [][\A e \in Emails : \A c \in Codes : \A i \in 1..Len(otp_codes) :
            (/\ UserIdOf(LowerEmail(e)) # 0
             /\ otp_codes[i].email = LowerEmail(e)
             /\ otp_codes[i].otp_code = c
             /\ ~otp_codes[i].is_used
             /\ otp_codes[i].attempts < ATTEMPT_LIMIT
             /\ now <= otp_codes[i].expires_at
             /\ verify_otp(e, c, "none"))
            => (/\ result'.success
                /\ SessionsOf(result'.token) = {}
                /\ result'.token # FORGED
                /\ otp_codes'[i].is_used
                /\ result'.user_data.user_id = UserIdOf(LowerEmail(e))
                /\ Cardinality({k \in 1..Len(user_sessions') :
                        user_sessions'[k].session_token = result'.token}) = 1)]_vars
    /\ [][\A t \in Tokens :
            (/\ result.op = "verify_otp" /\ result.success /\ result.token = t
             /\ \A k \in SessionsOf(t) : user_sessions[k].created_at = now
             /\ validate_session(t, "none"))
            => (/\ result'.success
                /\ result'.user_data.user_id = result.user_data.user_id
                /\ result'.user_data.email = LowerEmail(result.user_data.email)
                /\ result'.user_data.company_domain = result.user_data.company_domain
                /\ result'.user_data.session_expires = result.user_data.session_expires
                /\ users[result'.user_data.user_id].email = result'.user_data.email)]_vars

C4_Witness ==
    /\ result.op = "validate_session"
    /\ result.success
    /\ \E k \in SessionsOf(result.token) :
          /\ user_sessions[k].last_activity = user_sessions[k].created_at
          /\ otp_codes[logins[k]].is_used
          /\ otp_codes[logins[k]].attempts > 0

----------------------------------------------------------------------------
(* C5: validate_session(token) succeeds only for a token that an earlier   *)
(* successful verify_otp returned, whose session is still active and not   *)
(* past its expires_at; the user_data returned is that of the user whose   *)
(* OTP created the session.  A token that was never issued never validates.*)
C5_ValidateOnlyIssued ==
    [][\A t \in Tokens :
          (validate_session(t, "none") /\ result'.success)
          => (/\ t # FORGED
              /\ \E k \in SessionsOf(t) :
                    /\ k \in 1..Len(logins)
                    /\ user_sessions[k].is_active
                    /\ now <= user_sessions[k].expires_at
                    /\ users[user_sessions[k].user_id].email = otp_codes[logins[k]].email
                    /\ result'.user_data.user_id = user_sessions[k].user_id
                    /\ result'.user_data.email = otp_codes[logins[k]].email
                    /\ result'.user_data.session_expires = user_sessions[k].expires_at)]_vars

C5_Witness ==
    /\ result.op = "validate_session"
    /\ result.success
    /\ Len(users) = 2
    /\ result.user_data.user_id = 2

----------------------------------------------------------------------------
(* C6 as stated: a session expires 8 hours after issuance and is never     *)
(* extended, validate_session changes only last_activity, and every        *)
(* validate_session made after expires_at fails with 'Session expired.     *)
(* Please login again.' and sets is_active to 0.                            *)
C6_EveryLateValidateSaysExpired ==
    [][\A t \in Tokens : \A k \in SessionsOf(t) :
          (validate_session(t, "none") /\ now > user_sessions[k].expires_at)
          => (/\ ~result'.success
              /\ result'.message = SessionExpiredMessage
              /\ ~user_sessions'[k].is_active)]_vars

(* C6 amended: a session expires SESSION_EXPIRY_HOURS = 8 hours after      *)
(* issuance and is never extended: validate_session changes only           *)
(* last_activity and is_active, never expires_at; every validate_session   *)
(* made after expires_at fails and leaves is_active at 0: the one made     *)
(* while the session is still active fails with 'Session expired. Please   *)
(* login again.', one made on a session already inactive fails with        *)
(* 'Invalid session. Please login again.'; an inactive session never       *)
(* becomes active again.                                                    *)
C6_SessionExpiry ==
    /\ [](\A k \in 1..Len(user_sessions) :
            user_sessions[k].expires_at
               = user_sessions[k].created_at + 60 * SESSION_EXPIRY_HOURS)
    /\ [][/\ Len(user_sessions') >= Len(user_sessions)
          /\ \A k \in 1..Len(user_sessions) :
                /\ user_sessions'[k].expires_at = user_sessions[k].expires_at
                /\ user_sessions'[k].created_at = user_sessions[k].created_at
                /\ ~user_sessions[k].is_active => ~user_sessions'[k].is_active]_vars
    /\ [][\A t \in Tokens :
            validate_session(t, "none")
            => (/\ Len(user_sessions') = Len(user_sessions)
                /\ \A k \in 1..Len(user_sessions) :
                      user_sessions'[k] =
                          [user_sessions[k] EXCEPT
                              !.last_activity = user_sessions'[k].last_activity,
                              !.is_active = user_sessions'[k].is_active])]_vars
    /\ [][\A t \in Tokens : \A k \in SessionsOf(t) :
            (validate_session(t, "none") /\ now > user_sessions[k].expires_at)
            => (/\ ~result'.success
                /\ ~user_sessions'[k].is_active
                /\ result'.message = IF user_sessions[k].is_active
                                      THEN SessionExpiredMessage
                                      ELSE InvalidSessionMessage)]_vars

C6_Witness ==
    /\ result.op = "validate_session"
    /\ result.message = SessionExpiredMessage
    /\ \E k \in SessionsOf(result.token) :
          ~user_sessions[k].is_active /\ now > user_sessions[k].expires_at

----------------------------------------------------------------------------
(* C7: logout invalidates the session.  logout_user(token) reports success *)
(* for any token, known or not, and leaves no active session with that     *)
(* token; an inactive session never becomes active again and a token       *)
(* without an active session never validates, so every later               *)
(* validate_session(token) fails whatever happens in between.               *)
C7_LogoutInvalidates ==
    [][/\ \A t \in Tokens :
            logout_user(t, "none")
            => (/\ result'.success
                /\ \A k \in 1..Len(user_sessions') :
                      user_sessions'[k].session_token = t
                          => ~user_sessions'[k].is_active)
       /\ \A k \in 1..Len(user_sessions) :
            /\ k \in 1..Len(user_sessions')
            /\ user_sessions'[k].session_token = user_sessions[k].session_token
            /\ ~user_sessions[k].is_active => ~user_sessions'[k].is_active
       /\ \A k \in 1..Len(user_sessions') :
            k > Len(user_sessions) => user_sessions'[k].session_token # FORGED
       /\ \A t \in Tokens :
            (/\ validate_session(t, "none")
             /\ \A k \in SessionsOf(t) : ~user_sessions[k].is_active)
            => ~result'.success]_vars

C7_Witness ==
    /\ result.op = "validate_session"
    /\ ~result.success
    /\ \E k \in SessionsOf(result.token) :
          /\ ~user_sessions[k].is_active
          /\ now <= user_sessions[k].expires_at
    /\ \E j \in 1..Len(audit_log) : audit_log[j].action = "LOGOUT"

----------------------------------------------------------------------------
(* C8: every public operation in which a database or mail step failed      *)
(* returns success=False together with a message.                          *)
C8_FailuresSurfaced ==
    result.fault # "none" => (~result.success /\ result.message # "")

----------------------------------------------------------------------------
(* C9: the reporting pipeline is strictly sequential and gated in both     *)
(* entry points: the stages run in the order record, merge, transcribe,    *)
(* summarize, e-mail, each at most once, each only after the stage before  *)
(* it returned a usable result; transcribe_audio is called only with a     *)
(* path that merge_audio_clips returned, and the e-mail draft is created   *)
(* only when transcript and summary both exist.                             *)
Stages == <<"record", "merge", "transcribe", "summarize", "email">>

StageIndex(stage) == CHOOSE n \in 1..Len(Stages) : Stages[n] = stage

C9_PipelineGated ==
    program \in EntryPoints =>
        \A i \in 1..Len(calls) :
            /\ StageIndex(calls[i].stage) = i
            /\ calls[i].stage = "merge" => audio_files # <<>>
            /\ calls[i].stage = "transcribe"
                  => (calls[i].arg # None /\ calls[i].arg = final_audio_path)
            /\ calls[i].stage = "summarize"
                  => (calls[i].arg # None /\ calls[i].arg = transcript)
            /\ calls[i].stage = "email"
                  => (transcript # None /\ summary # None)

----------------------------------------------------------------------------
(* C10: merge_audio_clips(files) writes to the output file the frames of   *)
(* exactly those clips whose sample rate, channel count and sample width   *)
(* equal those of the first clip, in input order, skipping clips that      *)
(* mismatch or cannot be read; it returns the output path if and only if   *)
(* at least one frame was written, and None otherwise, in particular for   *)
(* an empty list and for an unreadable first clip.                          *)
RECURSIVE FramesOfMatching(_, _)
FramesOfMatching(files, first) ==
    IF files = <<>> THEN <<>>
    ELSE IF Head(files).readable /\ Head(files).params = first.params
         THEN Head(files).frames \o FramesOfMatching(Tail(files), first)
         ELSE FramesOfMatching(Tail(files), first)

C10_MergeContract ==
    (program = "merge_audio" /\ pc = "returned") =>
        /\ output_file.created
              => output_file.frames = FramesOfMatching(audio_files, audio_files[1])
        /\ (final_audio_path # None) <=> (Len(output_file.frames) >= 1)
        /\ (audio_files = <<>> \/ ~audio_files[1].readable)
              => final_audio_path = None

----------------------------------------------------------------------------
(* C11: POST /api/auth/register with an e-mail that does not end in        *)
(* '@hssmedicine.com' is answered with status 400 and the detail 'Access   *)
(* restricted to hssmedicine.com employees only' and creates no user       *)
(* document; with an e-mail in that domain that is not yet registered it   *)
(* answers 200 with success true and creates exactly one user, that of the *)
(* lower-cased address.                                                     *)
EndsInCompanyDomain(email) == Len(email) >= 2 /\ email[Len(email)] = "hssmedicine.com"

RestrictedDetail == "Access restricted to hssmedicine.com employees only"

C11_RegisterEndpoint ==
    [][\A e \in OtpEmails :
          (program = "server" /\ server_register_user(e))
          => /\ ~EndsInCompanyDomain(e)
                  => (/\ result'.status = 400
                      /\ result'.message = RestrictedDetail
                      /\ users' = users)
             /\ (/\ EndsInCompanyDomain(e)
                 /\ \A i \in 1..Len(users) : users[i].email # LowerEmail(e))
                  => (/\ result'.status = 200
                      /\ result'.success
                      /\ Len(users') = Len(users) + 1
                      /\ SubSeq(users', 1, Len(users)) = users
                      /\ users'[Len(users')].email = LowerEmail(e))]_vars

C11_Witness ==
    /\ program = "server"
    /\ result.op = "server_register_user"
    /\ result.status = 400
    /\ result.message = RestrictedDetail
    /\ Len(users) = 1

----------------------------------------------------------------------------
(* C12: registering an e-mail that is already registered, compared after   *)
(* lower-casing, fails with an 'already registered' message and leaves the *)
(* stored users unchanged, in EnterpriseAuth.register_user and in the      *)
(* backend's register endpoint; after any sequence of register operations  *)
(* made one at a time no two users share an e-mail address.                 *)
AlreadyRegisteredMessages ==
    {"User already registered. Please use login instead.", "User already registered"}

C12_NoDuplicateUsers ==
    /\ [][\A e \in OtpEmails :
            (/\ \E i \in 1..Len(users) : users[i].email = LowerEmail(e)
             /\ (register_user(e, "none") \/ server_register_user(e)))
            => (/\ ~result'.success
                /\ result'.message \in AlreadyRegisteredMessages
                /\ users' = users)]_vars
    /\ [](\A i \in 1..Len(users) : \A j \in 1..Len(users) :
            users[i].email = users[j].email => i = j)

C12_Witness ==
    /\ result.message \in AlreadyRegisteredMessages
    /\ Len(users) = 1
    /\ users[1].email = <<"bob", "hssmedicine.com">>

----------------------------------------------------------------------------
(* C13: POST /api/auth/verify-otp with a code that matches no unused,      *)
(* unexpired OTP of the given e-mail is answered with status 400 and       *)
(* detail 'Invalid or expired OTP', creates no session, changes no user    *)
(* field, and increments the attempts counter of that e-mail's unused OTPs *)
(* by one, leaving every other OTP as it was.                               *)
InvalidOtpDetail == "Invalid or expired OTP"

C13_InvalidOtpRejected ==
    [][\A e \in OtpEmails : \A c \in Codes :
          (/\ program = "server"
           /\ ~\E i \in 1..Len(otp_codes) :
                  /\ otp_codes[i].email = LowerEmail(e)
                  /\ otp_codes[i].otp_code = c
                  /\ ~otp_codes[i].is_used
                  /\ otp_codes[i].expires_at > now
           /\ verify_otp_endpoint(e, c))
          => (/\ result'.status = 400
              /\ result'.message = InvalidOtpDetail
              /\ user_sessions' = user_sessions
              /\ users' = users
              /\ Len(otp_codes') = Len(otp_codes)
              /\ \A i \in 1..Len(otp_codes) :
                    otp_codes'[i] =
                        IF otp_codes[i].email = LowerEmail(e) /\ ~otp_codes[i].is_used
                        THEN [otp_codes[i] EXCEPT !.attempts = otp_codes[i].attempts + 1]
                        ELSE otp_codes[i])]_vars

C13_Witness ==
    /\ program = "server"
    /\ result.op = "verify_otp_endpoint"
    /\ result.status = 400
    /\ result.message = InvalidOtpDetail
    /\ \E i \in 1..Len(otp_codes) : ~otp_codes[i].is_used /\ otp_codes[i].attempts = 2

----------------------------------------------------------------------------
(* Vocabulary of the properties about the backend's protected endpoints *)

(* The token belongs to a session that is active and unexpired and whose   *)
(* user exists                                                              *)
LiveSessions(t) ==
    {k \in 1..Len(user_sessions) :
        /\ user_sessions[k].session_token = t
        /\ user_sessions[k].is_active
        /\ now < user_sessions[k].expires_at
        /\ user_sessions[k].user_id \in 1..Len(users)}

(* A request to one of the protected endpoints, made with bearer token t *)
ProtectedRequest(t) ==
    \/ logout(t)
    \/ \E openai \in {"no_key", "error", "ok"} : server_generate_report(t, openai)
    \/ get_report_history(t)
    \/ create_automation_request(t)
    \/ get_user_automation_requests(t)
    \/ \E r \in RequestIds : update_automation_request(t, r, FormUpdate)
    \/ \E r \in RequestIds : add_message_to_request(t, r)
    \/ \E r \in RequestIds : get_request_messages(t, r)
    \/ get_all_automation_requests(t)
    \/ \E r \in RequestIds : \E st \in Statuses :
          \E notes \in BOOLEAN : update_request_status(t, r, st, notes)
    \/ get_admin_stats(t)

----------------------------------------------------------------------------
(* C14: an authenticated caller whose user is not an admin and who         *)
(* requests GET /api/admin/stats receives an error response whose detail   *)
(* is 'Admin access required', and receives no statistics.                  *)
C14_AdminStatsRestricted ==
    [][\A t \in Tokens :
          (/\ \E k \in LiveSessions(t) : ~users[user_sessions[k].user_id].is_admin
           /\ get_admin_stats(t))
          => (/\ result'.status # 200
              /\ result'.message = "Admin access required"
              /\ result'.data = None)]_vars

----------------------------------------------------------------------------
(* C15: every protected endpoint of the backend (reports, automation       *)
(* requests, messages, admin, logout) acts only for a bearer token of a    *)
(* session that is active and unexpired and whose user exists; for any     *)
(* other token the request is answered 401 and no report, request, message *)
(* or session is created or changed.                                        *)
C15_ProtectedEndpoints ==
    [][\A t \in Tokens :
          \/ /\ LiveSessions(t) = {}
                  => (/\ result'.status = 401
                      /\ result'.data = None
                      /\ reports' = reports
                      /\ automation_requests' = automation_requests
                      /\ chat_messages' = chat_messages
                      /\ user_sessions' = user_sessions)
             /\ (\/ result'.status # 401
                 \/ reports' # reports
                 \/ automation_requests' # automation_requests
                 \/ chat_messages' # chat_messages
                 \/ user_sessions' # user_sessions)
                  => LiveSessions(t) # {}
          \/ ~ProtectedRequest(t)]_vars

C15_Witness ==
    /\ program = "server"
    /\ result.op = "create_automation_request"
    /\ result.status = 401
    /\ Len(automation_requests) = 1
    /\ \E k \in 1..Len(user_sessions) :
          /\ user_sessions[k].user_id = automation_requests[1].user_id
          /\ ~user_sessions[k].is_active
          /\ now < user_sessions[k].expires_at

----------------------------------------------------------------------------
(* C16: one-time use holds under interleaving.  When POST                  *)
(* /api/auth/verify-otp requests carrying the same valid code for the same *)
(* e-mail run concurrently and their database steps interleave at the      *)
(* await points, at most one of them succeeds and at most one session is   *)
(* created for that OTP.                                                    *)
C16_OneTimeUseConcurrent ==
    \A i \in 1..Len(otp_codes) :
        /\ Cardinality({k \in 1..Len(logins) : logins[k] = i}) <= 1
        /\ Cardinality({r \in 1..Len(in_flight) :
                           in_flight[r].otp_record = i /\ in_flight[r].status = 200}) <= 1

----------------------------------------------------------------------------
(* Vocabulary of the attempt-limit properties *)
TooManyAttemptsMessages ==
    {"Too many failed attempts. Please request a new OTP.", "Too many failed attempts"}

(* verify_otp of either implementation *)
AnyVerifyOtp(e, c) == verify_otp(e, c, "none") \/ verify_otp_endpoint(e, c)

(* The OTP row i is the unused OTP of address e and carries code c *)
CurrentOtp(i, e, c) ==
    /\ otp_codes[i].email = LowerEmail(e)
    /\ otp_codes[i].otp_code = c
    /\ ~otp_codes[i].is_used

(* C17 as stated: once three verify_otp calls with wrong codes have been   *)
(* made for an e-mail since its current OTP was issued, a verify_otp with  *)
(* the correct code fails with 'Too many failed attempts', marks the OTP   *)
(* used and creates no session, whether or not the OTP is still within its *)
(* lifetime; with at most two preceding wrong codes the correct, unexpired *)
(* code of a registered user is accepted.                                   *)
C17_AttemptLimitAsStated ==
    [][\A e \in OtpEmails : \A c \in Codes : \A i \in 1..Len(otp_codes) :
          /\ (/\ CurrentOtp(i, e, c)
              /\ otp_codes[i].attempts >= 3
              /\ AnyVerifyOtp(e, c))
             => (/\ ~result'.success
                 /\ result'.message \in TooManyAttemptsMessages
                 /\ otp_codes'[i].is_used
                 /\ user_sessions' = user_sessions)
          /\ (/\ CurrentOtp(i, e, c)
              /\ otp_codes[i].attempts <= 2
              /\ now < otp_codes[i].expires_at
              /\ \E u \in 1..Len(users) : users[u].email = LowerEmail(e)
              /\ AnyVerifyOtp(e, c))
             => result'.success]_vars

(* C17 amended: once three verify_otp calls with wrong codes have been     *)
(* made for an e-mail since its current OTP was issued, a verify_otp with  *)
(* the correct code, made before the OTP expires, fails with 'Too many     *)
(* failed attempts', marks the OTP used and creates no session; with at    *)
(* most two preceding wrong codes the correct, unexpired code of a         *)
(* registered user is still accepted.  No session is ever created from an  *)
(* OTP whose attempts counter is 3 or more.                                 *)
C17_AttemptLimit ==
    /\ [][\A e \in OtpEmails : \A c \in Codes : \A i \in 1..Len(otp_codes) :
            /\ (/\ CurrentOtp(i, e, c)
                /\ otp_codes[i].attempts >= 3
                /\ now < otp_codes[i].expires_at
                /\ AnyVerifyOtp(e, c))
               => (/\ ~result'.success
                   /\ result'.message \in TooManyAttemptsMessages
                   /\ otp_codes'[i].is_used
                   /\ user_sessions' = user_sessions)
            /\ (/\ CurrentOtp(i, e, c)
                /\ otp_codes[i].attempts <= 2
                /\ now < otp_codes[i].expires_at
                /\ \E u \in 1..Len(users) : users[u].email = LowerEmail(e)
                /\ AnyVerifyOtp(e, c))
               => (/\ result'.success
                   /\ Len(user_sessions') = Len(user_sessions) + 1
                   /\ logins' = Append(logins, i))]_vars
    /\ [](\A k \in 1..Len(logins) : otp_codes[logins[k]].attempts < 3)

C17_Witness ==
    /\ result.message \in TooManyAttemptsMessages
    /\ \E i \in 1..Len(otp_codes) :
          /\ otp_codes[i].is_used
          /\ otp_codes[i].attempts >= 3
          /\ now < otp_codes[i].expires_at

----------------------------------------------------------------------------
(* C18: only system administrators can access the admin panel and OTP     *)
(* verification is required: the admin dashboard is shown only for an      *)
(* active user whose is_admin flag is set, and only after that user has    *)
(* passed an OTP verification.                                              *)
C18_AdminPanelGate ==
    screen = "dashboard" =>
        /\ admin_authenticated
        /\ current_admin_user.id \in 1..Len(users)
        /\ users[current_admin_user.id].email = current_admin_user.email
        /\ users[current_admin_user.id].is_active
        /\ users[current_admin_user.id].is_admin
        /\ \E k \in 1..Len(logins) :
              otp_codes[logins[k]].email = current_admin_user.email

----------------------------------------------------------------------------
(* C19: after any sequence of EnterpriseAuth operations each e-mail has at *)
(* most one OTP row with is_used = 0, and it is the most recently issued   *)
(* one: a generate_otp that inserts a row marks every earlier unused OTP   *)
(* of the e-mail used in the same step, so a successful verify_otp never   *)
(* redeems an OTP issued before the latest generate_otp for the e-mail.     *)
C19_SingleCurrentOtp ==
    /\ [](\A i \in 1..Len(otp_codes) : \A j \in 1..Len(otp_codes) :
            (otp_codes[i].email = otp_codes[j].email /\ ~otp_codes[i].is_used)
            => j <= i)
    /\ [][\A e \in Emails : \A c \in Codes :
            (Len(otp_codes') > Len(otp_codes) /\ generate_otp(e, c, "none"))
            => (/\ Len(otp_codes') = Len(otp_codes) + 1
                /\ otp_codes'[Len(otp_codes')].email = LowerEmail(e)
                /\ otp_codes'[Len(otp_codes')].otp_code = c
                /\ ~otp_codes'[Len(otp_codes')].is_used
                /\ \A i \in 1..Len(otp_codes) :
                      /\ otp_codes[i].email = LowerEmail(e) => otp_codes'[i].is_used
                      /\ otp_codes[i].email # LowerEmail(e) => otp_codes'[i] = otp_codes[i])]_vars
    /\ [][Len(logins') > Len(logins)
            => \A j \in 1..Len(otp_codes) :
                  otp_codes[j].email = otp_codes[logins'[Len(logins')]].email
                  => j <= logins'[Len(logins')]]_vars

C19_Witness ==
    /\ Len(otp_codes) = 2
    /\ otp_codes[1].email = otp_codes[2].email
    /\ otp_codes[1].otp_code # otp_codes[2].otp_code
    /\ otp_codes[1].is_used
    /\ ~otp_codes[2].is_used
    /\ otp_codes[2].attempts >= 1
    /\ logins = <<>>
    /\ result.op = "verify_otp"
    /\ result.message = "Invalid OTP code. Please check and try again."

----------------------------------------------------------------------------
(* C20: EnterpriseAuth.verify_otp marks the matched OTP as used before it  *)
(* looks up the user: a verify_otp with a valid, unexpired code for an     *)
(* e-mail that has no user row returns 'User not found. Please register    *)
(* first.', creates no session, and consumes the OTP, so the same code is  *)
(* rejected by a later verify_otp even after the user has registered.       *)
C20_OtpConsumedWithoutUser ==
    [][\A e \in Emails : \A c \in Codes : \A i \in 1..Len(otp_codes) :
          (/\ CurrentOtp(i, e, c)
           /\ now <= otp_codes[i].expires_at
           /\ otp_codes[i].attempts < 3
           /\ \A u \in 1..Len(users) : users[u].email # LowerEmail(e)
           /\ verify_otp(e, c, "none"))
          => (/\ ~result'.success
              /\ result'.message = "User not found. Please register first."
              /\ user_sessions' = user_sessions
              /\ otp_codes'[i].is_used)]_vars

----------------------------------------------------------------------------
(* C21: POST /api/auth/logout of the backend deactivates all sessions of   *)
(* the calling user, not only the presented one.  A successful logout      *)
(* leaves every session of the caller inactive; an inactive session never  *)
(* becomes active again; and a request to a protected endpoint with the    *)
(* token of an inactive session is answered 401 and changes no document.   *)
(* So after a successful logout no token previously issued to that user is *)
(* accepted by any protected endpoint.                                     *)
C21_LogoutAllSessions ==
    [][/\ \A k \in 1..Len(user_sessions) :
             ~user_sessions[k].is_active
                => /\ k <= Len(user_sessions')
                   /\ ~user_sessions'[k].is_active
                   /\ user_sessions'[k].session_token = user_sessions[k].session_token
       /\ \A t \in Tokens :
             \/ result'.op # "logout"
             \/ result'.status # 200
             \/ ~logout(t)
             \/ \A k \in LiveSessions(t) : \A j \in 1..Len(user_sessions) :
                    user_sessions[j].user_id = user_sessions[k].user_id
                       => ~user_sessions'[j].is_active
       /\ \A t \in Tokens :
             \/ \E k \in 1..Len(user_sessions) :
                    user_sessions[k].session_token = t /\ user_sessions[k].is_active
             \/ ~ProtectedRequest(t)
             \/ /\ result'.status = 401
                /\ reports' = reports
                /\ automation_requests' = automation_requests
                /\ chat_messages' = chat_messages]_vars

C21_Witness ==
    /\ program = "server"
    /\ result.op = "get_report_history"
    /\ result.status = 401
    /\ \E j, k \in 1..Len(user_sessions) :
          /\ j # k
          /\ user_sessions[j].user_id = user_sessions[k].user_id
          /\ user_sessions[j].session_token # user_sessions[k].session_token
          /\ ~user_sessions[j].is_active /\ now < user_sessions[j].expires_at
          /\ ~user_sessions[k].is_active /\ now < user_sessions[k].expires_at

----------------------------------------------------------------------------
(* A request to one of the admin endpoints, made with bearer token t *)
AdminRequest(t) ==
    \/ get_all_automation_requests(t)
    \/ \E r \in RequestIds : \E st \in Statuses :
          \E notes \in BOOLEAN : update_request_status(t, r, st, notes)
    \/ get_admin_stats(t)

(* C22: the admin endpoints (GET /api/admin/requests, PUT                  *)
(* /api/admin/requests/{id}/status, GET /api/admin/stats) return data or   *)
(* change a request only when the user of the validated session has        *)
(* is_admin true; for any other caller the answer is an error without      *)
(* data, and no request status, admin note or chat message is changed or   *)
(* created.                                                                 *)
C22_AdminEndpointsGuarded ==
    [][\A t \in Tokens :
          \/ \E k \in LiveSessions(t) : users[user_sessions[k].user_id].is_admin
          \/ ~AdminRequest(t)
          \/ /\ result'.status # 200
             /\ result'.data = None
             /\ automation_requests' = automation_requests
             /\ chat_messages' = chat_messages]_vars

C22_Witness ==
    /\ program = "server"
    /\ result.op = "update_request_status"
    /\ result.status = 500
    /\ Len(automation_requests) = 1
    /\ automation_requests[1].status = "pending"
    /\ ~automation_requests[1].admin_notes
    /\ chat_messages = <<>>
    /\ \E k \in 1..Len(user_sessions) :
          /\ user_sessions[k].is_active
          /\ now < user_sessions[k].expires_at
          /\ ~users[user_sessions[k].user_id].is_admin
    /\ \A k \in 1..Len(user_sessions) : ~users[user_sessions[k].user_id].is_admin

----------------------------------------------------------------------------
(* C23: PUT /api/automation/requests/{id} changes a request only when it   *)
(* belongs to the calling user, and then changes at most title,            *)
(* description and priority (and updated_at, which is not kept here); the  *)
(* request's status, admin_notes and user_id are left unchanged, a request *)
(* of another user is left entirely unchanged, and no request, message or  *)
(* report is created.                                                       *)
C23_UpdateOwnRequestOnly ==
    [][\A t \in Tokens : \A r \in RequestIds : \A body \in UpdateBodies :
          \/ result'.op # "update_automation_request"
          \/ ~update_automation_request(t, r, body)
          \/ /\ Len(automation_requests') = Len(automation_requests)
             /\ chat_messages' = chat_messages
             /\ reports' = reports
             /\ \A q \in 1..Len(automation_requests) :
                   /\ automation_requests'[q].status = automation_requests[q].status
                   /\ automation_requests'[q].admin_notes
                         = automation_requests[q].admin_notes
                   /\ automation_requests'[q].user_id = automation_requests[q].user_id
                   /\ automation_requests'[q] # automation_requests[q]
                         => /\ q = r
                            /\ \E k \in LiveSessions(t) :
                                  user_sessions[k].user_id
                                     = automation_requests[q].user_id]_vars

C23_Witness ==
    /\ program = "server"
    /\ result.op = "update_automation_request"
    /\ result.status = 200
    /\ Len(automation_requests) = 1
    /\ automation_requests[1].title = "new"
    /\ automation_requests[1].description = "new"
    /\ automation_requests[1].priority = "medium"
    /\ automation_requests[1].status = "completed"
    /\ automation_requests[1].admin_notes
    /\ ~users[automation_requests[1].user_id].is_admin

----------------------------------------------------------------------------
(* The paths of the files that were written completely, in the order written *)
RECURSIVE SavedPaths(_)
SavedPaths(files) ==
    IF files = <<>> THEN <<>>
    ELSE IF files[1].complete
         THEN <<files[1].path>> \o SavedPaths(Tail(files))
         ELSE SavedPaths(Tail(files))

(* C24: record_multiple_clips returns only when the user answers 'no'      *)
(* after at least one clip was saved; answering 'no' while no clip has     *)
(* been recorded re-prompts instead of ending.  The returned list is never *)
(* empty and holds the successfully saved clips in recording order, with   *)
(* failed clips omitted, and each clip number is used for at most one      *)
(* file.                                                                    *)
C24_RecordingEndsWithClips ==
    /\ [](/\ pc = "returned" => audio_files # <<>>
          /\ audio_files = SavedPaths(clip_files)
          /\ \A i, j \in 1..Len(clip_files) :
                clip_files[i].path = clip_files[j].path => i = j
          /\ \A i, j \in 1..Len(audio_files) :
                audio_files[i] = audio_files[j] => i = j)
    /\ [][/\ (pc' = "returned" /\ pc # "returned")
               => /\ pc = "ask"
                  /\ response' \in {"n", "no"}
                  /\ audio_files # <<>>
                  /\ audio_files' = audio_files
          /\ \A typed \in Typed :
                (/\ audio_files = <<>>
                 /\ StripLower(typed) \in {"n", "no"}
                 /\ AnswerPrompt(typed))
                => pc' = "ask" /\ audio_files' = <<>>]_vars

C24_Witness ==
    /\ program = "record_voice"
    /\ pc = "returned"
    /\ response = "no"
    /\ audio_files = <<FilePath(2), FilePath(3)>>
    /\ Len(clip_files) = 3
    /\ ~clip_files[1].complete

----------------------------------------------------------------------------
(* Both implementations have run the pending operation *)
BothAnswered == program = "server" /\ pending.op # None /\ result # AtTurn

(* C25: the two implementations of OTP/session authentication agree: for   *)
(* e-mails in hssmedicine.com, EnterpriseAuth and the backend give the     *)
(* same success/failure outcome at every step of any sequential trace of   *)
(* register, generate-OTP, verify-OTP, validate-session and logout         *)
(* operations run with the same clock values and the same issued codes.    *)
C25_ImplementationsAgree ==
    BothAnswered => (result.success = peer.result.success)

====
